---- MODULE Spec2Model ----
(***************************************************************************)
(* Model of the match engine of the O,No card game server (class GameRoom  *)
(* of src/server.js) together with the part of the socket handlers that    *)
(* creates a room, deals, and deletes the room when a win is reported.     *)
(*                                                                         *)
(* Representation.  A card is a record [color, value, type].  A player     *)
(* is identified with its index in GameRoom.players; the id NumIds-1 ...   *)
(* beyond the player count stands for a socket that is not in the room.    *)
(* The deck is kept as a bag: shuffleDeck draws a fresh permutation from   *)
(* Math.random and nothing reads the order of the deck except pop, so      *)
(* every pop may return any card that is still in the deck.  The discard   *)
(* pile is a sequence, as in the code (top = last element).  A hand is     *)
(* kept as the bag of its cards: playCard reads the hand only through      *)
(* hand[cardIndex], so the operation is given the card the index names     *)
(* (NoCard for an index outside the hand).  The one place where the        *)
(* order of a hand is read is hand.at(-1) in drawCard; when a card was     *)
(* drawn it is that card, and when none was drawn (deck and discard pile   *)
(* exhausted) the model lets it be any card of the hand.                   *)
(*                                                                         *)
(* Scale.  createDeck is modelled with the code's loops over the lists     *)
(* COLORS, NUMBERS and ACTIONS; the lists and the copy counts are cut      *)
(* down (see the section "Scale of the deck") so that the reachable        *)
(* states can be enumerated.                                               *)
(*                                                                         *)
(* Presence.  The second part of the module models the presence manager    *)
(* of a room (class PlayerPresenceManager of                               *)
(* src/public/js/playerPresence.js) with its heartbeat sweep and grace     *)
(* timers.  It is explored by its own specification, PresenceSpec, in      *)
(* which the match engine stays as constructed; under Spec the presence    *)
(* manager stays as constructed.                                           *)
(*                                                                         *)
(* Server.  The last part models the lobby handlers of src/server.js       *)
(* (joinLobby, playerReady, leaveLobby, heartbeat, disconnect) and the     *)
(* 'player-timeout' callback around one lobby, its presence manager and    *)
(* the match created from it.  It is explored by ServerSpec; under the     *)
(* other specifications `server` stays as it is when the server starts.    *)
(***************************************************************************)
EXTENDS Integers, Sequences, FiniteSets, Bags, TLC

VARIABLES
    phase,             \* "new" | "built" | "playing" | "over" | "crashed";
                       \* under ServerSpec also "none" (no room yet) | "ended"
    settings,          \* GameRoom.settings
    players,           \* GameRoom.players: 0..n-1 -> [hand, calledUno]
    deck,              \* GameRoom.deck (bag of cards)
    discardPile,       \* GameRoom.discardPile (sequence, top last)
    currentPlayer,     \* GameRoom.currentPlayer
    currentColor,      \* GameRoom.currentColor
    currentValue,      \* GameRoom.currentValue
    direction,         \* GameRoom.direction
    stackedDrawCount,  \* GameRoom.stackedDrawCount
    hasDrawnThisTurn,  \* GameRoom.hasDrawnThisTurn
    pendingSwap7,      \* GameRoom.pendingSwap7: {} for null, {id} for { playerId: id }
    scale,             \* the scale createDeck is modelled at
    last,              \* result returned by the last operation
    steps,             \* number of operations applied so far
    presence,          \* the room's PlayerPresenceManager, its timers and the clock
    event,             \* the last call made on the presence manager
    server             \* lobbies, rooms, lobbyPresenceManagers and the sockets connected

vars == <<phase, settings, players, deck, discardPile, currentPlayer,
          currentColor, currentValue, direction, stackedDrawCount,
          hasDrawnThisTurn, pendingSwap7, scale, last, steps, presence, event,
          server>>

(***************************************************************************)
(* Scale of the deck and of the exploration                                *)
(*                                                                         *)
(* createDeck builds 108 cards (110 with allowPlus12).  The model builds   *)
(* the deck with the same loops from shorter lists: a scale names the      *)
(* colors, the numbers (the first one is pushed once per color, the others *)
(* `copies` times, as the first and the other entries of the code's list), the     *)
(* actions, and how many Wild / Wild+4 pairs and +12 cards are pushed.     *)
(***************************************************************************)
MaxSteps == 3

Min(a, b) == IF a < b THEN a ELSE b

NoColor == "undefined"

Card(color, value, type) == [color |-> color, value |-> value, type |-> type]

NoCard == Card("undefined", "undefined", "undefined")

\* the chosenColor of a playCard message: the payload is the client's and is
\* passed to playCard as received, so a color of the game, nothing, or any
\* other string (here the color name of the wild cards)
ChosenColors == {"red", "blue", NoColor, "wild"}

RECURSIVE BagOfSeq(_)
BagOfSeq(s) ==
    IF s = <<>> THEN EmptyBag ELSE SetToBag({Head(s)}) (+) BagOfSeq(Tail(s))

RECURSIVE Repeat(_, _)
Repeat(s, k) == IF k = 0 THEN <<>> ELSE s \o Repeat(s, k - 1)

RECURSIVE Flatten(_)
Flatten(ss) == IF ss = <<>> THEN <<>> ELSE Head(ss) \o Flatten(Tail(ss))

(***************************************************************************)
(* JavaScript arithmetic: % is the truncated remainder (sign of dividend). *)
(***************************************************************************)
JsMod(a, b) == IF a >= 0 THEN a % b ELSE -((-a) % b)

(***************************************************************************)
(* The room as one record (the `this` of the GameRoom methods).            *)
(***************************************************************************)
Room ==
    [settings         |-> settings,
     players          |-> players,
     deck             |-> deck,
     discardPile      |-> discardPile,
     currentPlayer    |-> currentPlayer,
     currentColor     |-> currentColor,
     currentValue     |-> currentValue,
     direction        |-> direction,
     stackedDrawCount |-> stackedDrawCount,
     hasDrawnThisTurn |-> hasDrawnThisTurn,
     pendingSwap7     |-> pendingSwap7]

SetRoom(r) ==
    /\ players' = r.players
    /\ deck' = r.deck
    /\ discardPile' = r.discardPile
    /\ currentPlayer' = r.currentPlayer
    /\ currentColor' = r.currentColor
    /\ currentValue' = r.currentValue
    /\ direction' = r.direction
    /\ stackedDrawCount' = r.stackedDrawCount
    /\ hasDrawnThisTurn' = r.hasDrawnThisTurn
    /\ pendingSwap7' = r.pendingSwap7

NumPlayers(this) == Cardinality(DOMAIN this.players)

\* players.findIndex(p => p.id === playerId): the id of player i is i
findIndex(this, playerId) ==
    IF playerId \in DOMAIN this.players THEN playerId ELSE -1

Hand(this, i) == this.players[i].hand

\* players[i].hand.length
HandSize(this, i) == BagCardinality(this.players[i].hand)

SetCalledUno(this, i, b) == [this EXCEPT !.players[i].calledUno = b]

(***************************************************************************)
(* createDeck / shuffleDeck                                                *)
(***************************************************************************)
NumberCards(color, numbers) ==
    [i \in 1..Len(numbers) |-> Card(color, numbers[i], "number")]

ActionCards(color, actions) ==
    [i \in 1..Len(actions) |-> Card(color, actions[i], "action")]

ColorCards(color, sc) ==
    <<Card(color, sc.numbers[1], "number")>>
    \o Repeat(NumberCards(color, Tail(sc.numbers)) \o ActionCards(color, sc.actions),
              sc.copies)

WildCards(sc) ==
    Repeat(<<Card("wild", "Wild", "wild"), Card("wild", "Wild+4", "wild")>>, sc.wilds)

Plus12Cards(st, sc) ==
    IF st.allowPlus12 THEN Repeat(<<Card("wild", "+12", "wild")>>, sc.plus12s) ELSE <<>>

createDeckSeq(st, sc) ==
    Flatten([i \in 1..Len(sc.colors) |-> ColorCards(sc.colors[i], sc)])
    \o WildCards(sc) \o Plus12Cards(st, sc)

\* the deck after createDeck, shuffled: the bag of the cards pushed
createDeck(st, sc) == BagOfSeq(createDeckSeq(st, sc))

(***************************************************************************)
(* Legality and turn order                                                 *)
(***************************************************************************)
\* canPlayCard without the test of the pending stack
canPlayCard_IgnoresStack(this, card) ==
    \/ card.type = "wild"
    \/ card.color = this.currentColor
    \/ card.value = this.currentValue

canPlayCard(this, card) ==
    IF card = NoCard THEN FALSE
    ELSE IF this.settings.allowStacking /\ this.stackedDrawCount > 0
         THEN \/ (this.currentValue = "+2" /\ card.value = "+2")
              \/ (this.currentValue = "Wild+4" /\ card.value = "Wild+4")
         ELSE \/ card.type = "wild"
              \/ card.color = this.currentColor
              \/ card.value = this.currentValue

\* the next index without the + players.length that keeps it from being negative
getNextPlayerIndexFrom_NoWrap(this, index) ==
    JsMod(index + this.direction, NumPlayers(this))

\* getNextPlayerIndex(fromIndex) with fromIndex given
getNextPlayerIndexFrom(this, index) ==
    JsMod(index + this.direction + NumPlayers(this), NumPlayers(this))

\* getNextPlayerIndex(): fromIndex defaults to null, i.e. the current player
getNextPlayerIndex(this) == getNextPlayerIndexFrom(this, this.currentPlayer)

\* an advance that leaves hasDrawnThisTurn as it was
advanceTurn_KeepsFlag(this) ==
    [this EXCEPT !.currentPlayer = getNextPlayerIndex(this)]

advanceTurn(this) ==
    [this EXCEPT !.currentPlayer = getNextPlayerIndex(this),
                 !.hasDrawnThisTurn = FALSE]

\* a skip that moves the turn by one player only
skipNextPlayer_Once(this) == advanceTurn(this)

skipNextPlayer(this) == advanceTurn(advanceTurn(this))

\* an exchange that gives a the hand of b and leaves b's hand in place
swapHands_OneWay(this, a, b) ==
    [this EXCEPT !.players[a].hand = this.players[b].hand]

swapHands(this, a, b) ==
    [this EXCEPT !.players[a].hand = this.players[b].hand,
                 !.players[b].hand = this.players[a].hand]

(***************************************************************************)
(* Drawing and reshuffling                                                 *)
(***************************************************************************)
\* discardPile without its last element
Below(pile) == SubSeq(pile, 1, Len(pile) - 1)

Top(pile) == pile[Len(pile)]

\* a reshuffle that copies the discard pile and leaves it as it was
reshuffleDeck_KeepsPile(this) ==
    IF Len(this.discardPile) <= 1 THEN this
    ELSE [this EXCEPT !.deck = BagOfSeq(Below(this.discardPile))]

\* a reshuffle that leaves the deck empty
reshuffleDeck_Nothing(this) == this

reshuffleDeck(this) ==
    IF Len(this.discardPile) <= 1 THEN this
    ELSE [this EXCEPT !.deck = BagOfSeq(Below(this.discardPile)),
                      !.discardPile = <<Top(this.discardPile)>>]

\* the bag holding k copies of c
Copies(c, k) == IF k = 0 THEN EmptyBag ELSE [x \in {c} |-> k]

\* the sub-bags of m cards of bag: what m pops from a shuffled deck can give
RECURSIVE SubBags(_, _)
SubBags(bag, m) ==
    IF m = 0 THEN {EmptyBag}
    ELSE IF BagCardinality(bag) < m THEN {}
    ELSE LET c == CHOOSE x \in BagToSet(bag) : TRUE
             rest == [x \in BagToSet(bag) \ {c} |-> bag[x]]
         IN  UNION {{Copies(c, k) (+) b : b \in SubBags(rest, m - k)} :
                       k \in 0..Min(bag[c], m)}

\* pushes that take nothing from the deck
PopInto_KeepsDeck(this, playerIndex, b) ==
    [this EXCEPT !.players[playerIndex].hand = @ (+) b]

\* m times hand.push(this.deck.pop()), the pops giving the cards of b
PopInto(this, playerIndex, b) ==
    [this EXCEPT !.deck = this.deck (-) b,
                 !.players[playerIndex].hand = @ (+) b]

\* the rooms drawCards(playerIndex, count) can leave, one per bag of cards
\* the shuffled deck can give.  The loop of the code is taken in runs: a
\* reshuffle when the deck is empty, then as many pops as the deck allows;
\* with the deck still empty after the reshuffle no iteration does anything.
RECURSIVE drawCards(_, _, _)
drawCards(this, playerIndex, count) ==
    IF count = 0 THEN {this}
    ELSE LET t == IF this.deck = EmptyBag THEN reshuffleDeck(this) ELSE this
             m == Min(count, BagCardinality(t.deck))
         IN  IF t.deck # EmptyBag
             THEN UNION {drawCards(PopInto(t, playerIndex, b), playerIndex, count - m) :
                            b \in SubBags(t.deck, m)}
             ELSE {t}

(***************************************************************************)
(* Card effects                                                            *)
(***************************************************************************)
Effect(r, ret) == [room |-> r, ret |-> ret]

\* a Reverse that advances the turn whatever the number of players
ReverseEffect_AlwaysAdvances(this) ==
    advanceTurn([this EXCEPT !.direction = this.direction * (-1)])

\* case 'Reverse' of handleCardEffect
ReverseEffect(this) ==
    LET t == [this EXCEPT !.direction = this.direction * (-1)]
    IN  IF NumPlayers(this) = 2
        THEN [t EXCEPT !.hasDrawnThisTurn = FALSE]
        ELSE advanceTurn(t)

handleCardEffect(this, card, playerIndex) ==
    CASE card.value = "Skip" ->
            {Effect(skipNextPlayer(this), "undefined")}
      [] card.value = "Reverse" ->
            {Effect(ReverseEffect(this), "undefined")}
      [] card.value = "+2" ->
            IF this.settings.allowStacking
            THEN {Effect(advanceTurn([this EXCEPT !.stackedDrawCount = @ + 2]), "undefined")}
            ELSE {Effect(skipNextPlayer(t), "undefined") :
                     t \in drawCards(this, getNextPlayerIndex(this), 2)}
      [] card.value = "Wild+4" ->
            IF this.settings.allowStacking
            THEN {Effect(advanceTurn([this EXCEPT !.stackedDrawCount = @ + 4]), "undefined")}
            ELSE {Effect(skipNextPlayer(t), "undefined") :
                     t \in drawCards(this, getNextPlayerIndex(this), 4)}
      [] card.value = "0" ->
            IF this.settings.allowSpecial07
            THEN LET nextIdx == getNextPlayerIndexFrom(this, playerIndex)
                     t == SetCalledUno(SetCalledUno(swapHands(this, playerIndex, nextIdx),
                                                    playerIndex, FALSE), nextIdx, FALSE)
                 IN  {Effect(advanceTurn(t), "undefined")}
            ELSE {Effect(advanceTurn(this), "undefined")}
      [] card.value = "7" ->
            IF this.settings.allowSpecial07
            THEN {Effect([this EXCEPT !.pendingSwap7 = {playerIndex}], "needSwapTarget")}
            ELSE {Effect(advanceTurn(this), "undefined")}
      [] card.value = "+12" ->
            {Effect(skipNextPlayer(t), "undefined") :
                t \in drawCards(this, getNextPlayerIndexFrom(this, playerIndex), 12)}
      [] OTHER ->
            {Effect(advanceTurn(this), "undefined")}

checkUnoAfterPlay(this, playerIndex) ==
    IF HandSize(this, playerIndex) # 1
    THEN SetCalledUno(this, playerIndex, FALSE)
    ELSE this

(***************************************************************************)
(* The operations of a room.  Each gives the set of its outcomes: the room *)
(* it leaves and the result it returns.                                    *)
(***************************************************************************)
Out(r, res) == [room |-> r, result |-> res]

Fail(error) == [success |-> FALSE, error |-> error]

\* the values hand.at(-1) can have after drawCards(pi, 1) turned the hand
\* `before` into `after`: the card pushed, or with nothing pushed the last
\* card of the hand as it was (undefined for an empty hand)
AtLast(before, after) ==
    IF after # before THEN BagToSet(after (-) before)
    ELSE IF after = EmptyBag THEN {NoCard}
    ELSE BagToSet(after)

isJumpIn(this, card) ==
    /\ this.settings.allowJumpIn
    /\ \/ card.value = "Wild+4"
       \/ (card.value = "+2" /\ card.color = this.currentColor)
       \/ (card.type = "number" /\ card.color = this.currentColor
                                /\ card.value = this.currentValue)

\* a play that leaves the active color as it was when the card is not a wild
PutOnPile_KeepsColor(this, playerIndex, card, chosenColor) ==
    [this EXCEPT
        !.players[playerIndex].hand = @ (-) SetToBag({card}),
        !.discardPile = Append(@, card),
        !.currentColor = IF card.type = "wild"
                         THEN (IF chosenColor = NoColor THEN "red" ELSE chosenColor)
                         ELSE @,
        !.currentValue = card.value]

\* lines 144-152 of playCard: the card leaves the hand and becomes the active card
PutOnPile(this, playerIndex, card, chosenColor) ==
    [this EXCEPT
        !.players[playerIndex].hand = @ (-) SetToBag({card}),
        !.discardPile = Append(@, card),
        !.currentColor = IF card.type = "wild"
                         THEN (IF chosenColor = NoColor THEN "red" ELSE chosenColor)
                         ELSE card.color,
        !.currentValue = card.value]

\* a return that reports the empty hand as a win on the needSwapTarget path too
AfterEffect_WinnerOnSwap(e, playerIndex) ==
    LET t == IF e.ret = "needSwapTarget" THEN e.room
             ELSE checkUnoAfterPlay(e.room, playerIndex)
    IN  Out(t, [success |-> TRUE, needSwapTarget |-> (e.ret = "needSwapTarget"),
                winner |-> IF HandSize(t, playerIndex) = 0
                           THEN {playerIndex} ELSE {}])

\* lines 154-181 of playCard: what is returned once the effect has resolved
AfterEffect(e, playerIndex) ==
    IF e.ret = "needSwapTarget"
    THEN Out(e.room, [success |-> TRUE, needSwapTarget |-> TRUE, winner |-> {}])
    ELSE LET t == checkUnoAfterPlay(e.room, playerIndex)
         IN  Out(t, [success |-> TRUE, needSwapTarget |-> FALSE,
                     winner |-> IF HandSize(t, playerIndex) = 0
                                THEN {playerIndex} ELSE {}])

\* playCard(playerId, cardIndex, chosenColor), card being hand[cardIndex]
playCard(this, playerId, card, chosenColor) ==
    LET playerIndex == findIndex(this, playerId) IN
    IF playerIndex = -1 THEN {Out(this, Fail("Player not found"))}
    ELSE
    IF card = NoCard THEN {Out(this, Fail("Invalid card"))}
    ELSE IF playerIndex # this.currentPlayer /\ ~isJumpIn(this, card)
    THEN {Out(this, Fail("Not your turn"))}
    ELSE
    LET t1 == IF playerIndex # this.currentPlayer
              THEN [this EXCEPT !.currentPlayer = playerIndex]
              ELSE this
    IN
    IF ~canPlayCard(t1, card) THEN {Out(t1, Fail("Can't play that card"))}
    ELSE
    LET t2 == PutOnPile(t1, playerIndex, card, chosenColor)
    IN  {AfterEffect(e, playerIndex) : e \in handleCardEffect(t2, card, playerIndex)}

chooseSwapTarget(this, playerId, targetId) ==
    IF this.pendingSwap7 = {} THEN {Out(this, Fail("No swap pending"))}
    ELSE IF this.pendingSwap7 # {playerId} THEN {Out(this, Fail("Not your swap"))}
    ELSE
    LET pi == findIndex(this, playerId)
        ti == findIndex(this, targetId)
    IN
    IF pi = -1 \/ ti = -1 THEN {Out(this, Fail("Player not found"))}
    ELSE IF pi = ti THEN {Out(this, Fail("Cannot swap with yourself"))}
    ELSE {Out(advanceTurn([swapHands(this, pi, ti) EXCEPT !.pendingSwap7 = {}]),
              [success |-> TRUE])}

drawCard(this, playerId) ==
    LET pi == findIndex(this, playerId) IN
    IF pi = -1 \/ pi # this.currentPlayer THEN {Out(this, Fail("Not your turn"))}
    ELSE IF this.hasDrawnThisTurn
    THEN {Out(this, Fail("You can only draw once per turn"))}
    ELSE IF this.stackedDrawCount > 0
    THEN LET count == this.stackedDrawCount
         IN  {Out(advanceTurn(SetCalledUno([t EXCEPT !.stackedDrawCount = 0], pi, FALSE)),
                  [success |-> TRUE, drewStacked |-> TRUE, stackCount |-> count]) :
                 t \in drawCards(this, pi, count)}
    ELSE UNION {
            {LET canPlay == IF drawnCard # NoCard THEN canPlayCard(t, drawnCard) ELSE FALSE
                 t1 == IF ~canPlay THEN advanceTurn(t) ELSE t
                 t2 == IF HandSize(t1, pi) > 1 THEN SetCalledUno(t1, pi, FALSE) ELSE t1
             IN  Out(t2, [success |-> TRUE, drewStacked |-> FALSE,
                          canPlayDrawn |-> canPlay, cardsDrawn |-> 1]) :
                drawnCard \in AtLast(Hand(this, pi), Hand(t, pi))} :
            t \in drawCards([this EXCEPT !.hasDrawnThisTurn = TRUE], pi, 1)}

\* a declaration accepted at any hand size but the empty hand
callUno_AnySize(this, playerId) ==
    LET pi == findIndex(this, playerId) IN
    IF pi = -1 THEN {Out(this, Fail("Player not found"))}
    ELSE IF HandSize(this, pi) = 0
    THEN {Out(this, Fail("Can only call O,No when you have 1 card"))}
    ELSE {Out(SetCalledUno(this, pi, TRUE), [success |-> TRUE])}

callUno(this, playerId) ==
    LET pi == findIndex(this, playerId) IN
    IF pi = -1 THEN {Out(this, Fail("Player not found"))}
    ELSE IF HandSize(this, pi) # 1
    THEN {Out(this, Fail("Can only call O,No when you have 1 card"))}
    ELSE {Out(SetCalledUno(this, pi, TRUE), [success |-> TRUE])}

\* a catch that does not look at the flag of the player caught
catchUnoViolation_IgnoresFlag(this, catcherId, caughtId) ==
    LET ci == findIndex(this, catcherId)
        cui == findIndex(this, caughtId)
    IN
    IF ci = -1 \/ cui = -1 THEN {Out(this, Fail("Player not found"))}
    ELSE IF HandSize(this, cui) # 1
    THEN {Out(this, Fail("No O,no violation detected"))}
    ELSE {Out(SetCalledUno(t, cui, FALSE), [success |-> TRUE, penaltyApplied |-> TRUE]) :
             t \in drawCards(this, cui, 2)}

catchUnoViolation(this, catcherId, caughtId) ==
    LET ci == findIndex(this, catcherId)
        cui == findIndex(this, caughtId)
    IN
    IF ci = -1 \/ cui = -1 THEN {Out(this, Fail("Player not found"))}
    ELSE IF HandSize(this, cui) # 1 \/ this.players[cui].calledUno
    THEN {Out(this, Fail("No O,no violation detected"))}
    ELSE {Out(SetCalledUno(t, cui, FALSE), [success |-> TRUE, penaltyApplied |-> TRUE]) :
             t \in drawCards(this, cui, 2)}

(***************************************************************************)
(* dealCards                                                               *)
(***************************************************************************)
\* the ways to pop m cards from a shuffled deck into a hand: the hand
\* and the deck that is left
PopHands(bag, m) == {[hand |-> b, rest |-> bag (-) b] : b \in SubBags(bag, m)}

\* for (const p of this.players) { p.hand = []; count pops }: player i and
\* the players after it are dealt from bag
RECURSIVE DealFrom(_, _, _, _)
DealFrom(i, n, bag, count) ==
    IF i = n THEN {[hands |-> <<>>, rest |-> bag]}
    ELSE UNION {{[hands |-> <<h.hand>> \o d.hands, rest |-> d.rest] :
                    d \in DealFrom(i + 1, n, h.rest, count)} :
                h \in PopHands(bag, count)}

\* do { start = this.deck.pop(); } while (start.type !== 'number'):
\* the start cards the loop can end with and the deck left; popping from
\* the empty deck gives undefined, and start.type then throws
RECURSIVE PopStart(_)
PopStart(bag) ==
    IF bag = EmptyBag THEN {[thrown |-> TRUE, start |-> NoCard, rest |-> bag]}
    ELSE UNION {IF c.type = "number"
                THEN {[thrown |-> FALSE, start |-> c, rest |-> bag (-) SetToBag({c})]}
                ELSE PopStart(bag (-) SetToBag({c})) :
                c \in BagToSet(bag)}

dealCards(this, count) ==
    LET n == NumPlayers(this) IN
    IF BagCardinality(this.deck) < n * count
    THEN {[thrown |-> TRUE, room |-> this]}
    ELSE UNION {
        {IF s.thrown
         THEN [thrown |-> TRUE, room |-> this]
         ELSE [thrown |-> FALSE,
               room |-> [this EXCEPT
                   !.players = [i \in DOMAIN this.players |->
                                   [this.players[i] EXCEPT
                                       !.hand = d.hands[i + 1]]],
                   !.deck = s.rest,
                   !.discardPile = <<s.start>>,
                   !.currentColor = s.start.color,
                   !.currentValue = s.start.value]] :
            s \in PopStart(d.rest)} :
        d \in DealFrom(0, n, this.deck, count)}

\* room.settings.startingCards || 7
StartingCount(st) == IF st.startingCards = 0 THEN 7 ELSE st.startingCards

(***************************************************************************)
(* Initial states: a room as its constructor leaves it                     *)
(***************************************************************************)
\* the decks explored: the penalty cards, the swap cards, the turn-order
\* cards, and a deck that holds more than twelve cards beside a +12
PenaltyScale ==
    [colors |-> <<"red", "blue">>, numbers |-> <<"0">>, actions |-> <<"+2">>,
     copies |-> 2, wilds |-> 1, plus12s |-> 0]

SwapScale ==
    [colors |-> <<"red", "blue">>, numbers |-> <<"0", "7">>, actions |-> <<>>,
     copies |-> 2, wilds |-> 0, plus12s |-> 0]

TurnScale ==
    [colors |-> <<"red", "blue">>, numbers |-> <<"0">>, actions |-> <<"Skip", "Reverse">>,
     copies |-> 1, wilds |-> 0, plus12s |-> 0]

Plus12Scale ==
    [colors |-> <<"red", "blue">>, numbers |-> <<"0", "5">>, actions |-> <<>>,
     copies |-> 6, wilds |-> 0, plus12s |-> 1]

Rules(stacking, jumpIn, special07, plus12, startingCards) ==
    [allowStacking |-> stacking, allowJumpIn |-> jumpIn, allowSpecial07 |-> special07,
     allowPlus12 |-> plus12, startingCards |-> startingCards]

Config(n, st, sc) == [n |-> n, st |-> st, sc |-> sc]

\* the matches explored: participant count, lobby settings, deck
Configs ==
    {Config(2, Rules(TRUE, TRUE, FALSE, FALSE, 2), PenaltyScale),
     Config(2, Rules(FALSE, FALSE, FALSE, FALSE, 2), PenaltyScale),
     Config(3, Rules(TRUE, FALSE, FALSE, FALSE, 2), PenaltyScale),
     Config(3, Rules(FALSE, FALSE, FALSE, FALSE, 2), PenaltyScale),
     Config(2, Rules(FALSE, TRUE, TRUE, FALSE, 2), SwapScale),
     Config(3, Rules(FALSE, TRUE, TRUE, FALSE, 1), SwapScale),
     Config(2, Rules(FALSE, FALSE, FALSE, FALSE, 2), TurnScale),
     Config(3, Rules(FALSE, FALSE, FALSE, FALSE, 1), TurnScale),
     Config(2, Rules(TRUE, FALSE, FALSE, TRUE, 2), Plus12Scale)}

(***************************************************************************)
(* The presence manager (class PlayerPresenceManager of                    *)
(* src/public/js/playerPresence.js), as constructed by createLobby.        *)
(*                                                                         *)
(* Time is counted in ticks.  heartbeatInterval and reconnectTimeout are   *)
(* options of the constructor (5000 ms and 60000 ms in createLobby); the   *)
(* model constructs the manager with short ones, `Options` below.  The     *)
(* record carries, next to the fields of the object, what the JavaScript   *)
(* runtime holds for it: the clock (Date.now), the pending setTimeout      *)
(* callbacks, and the events emitted by the call that is running.          *)
(*                                                                         *)
(* The code reads the clock only to store it and to subtract a stored      *)
(* timestamp from it.  The model therefore keeps Date.now() at a fixed     *)
(* value and, when a tick passes, moves every stored time one tick into    *)
(* the past (action Tick).  A heartbeat timestamp is not moved further     *)
(* back than 2 * heartbeatInterval + 1 ticks: its age is then "more than   *)
(* two intervals", which is all the code can tell of an older one.         *)
(***************************************************************************)
NoTimer == -1

NoId == "none"

\* new Map()
EmptyMap == [k \in {} |-> NoId]

\* the timings the manager is constructed with, in ticks
Options ==
    {[heartbeatInterval |-> 1, reconnectTimeout |-> 3],
     [heartbeatInterval |-> 2, reconnectTimeout |-> 1]}

PlayerPresenceManager(minPlayers, options) ==
    [players |-> EmptyMap,           \* playerId -> [state, ready]
     minPlayers |-> minPlayers,
     heartbeatInterval |-> options.heartbeatInterval,
     reconnectTimeout |-> options.reconnectTimeout,
     heartbeatTimer |-> NoTimer,     \* the interval handle: time of the next sweep
     disconnectTimers |-> EmptyMap,  \* playerId -> timeout handle: time it is due
     lastHeartbeat |-> EmptyMap,     \* playerId -> timestamp
     timeouts |-> {},                \* pending setTimeout callbacks: <<playerId, due>>
     now |-> 2 * options.heartbeatInterval + 1,   \* Date.now()
     emitted |-> {}]                 \* events emitted by the running call: <<event, playerId>>

Constructed == [op |-> "constructor", id |-> NoId, arg |-> NoId]

\* the server when it starts to listen: const lobbies = {}, rooms = new Map(),
\* lobbyPresenceManagers = new Map(), and no socket connected yet
Listening ==
    [lobbies |-> {},       \* the ids in lobbies: {} or {RoomId}
     lobby |-> <<>>,       \* lobbies[RoomId].players: sequence of [id, ready]
     rooms |-> {},         \* the ids in rooms
     room |-> <<>>,        \* rooms.get(RoomId).players: the socket ids, in order
     managers |-> {},      \* the ids in lobbyPresenceManagers
     callbacks |-> {},     \* the events the manager has a callback for
     sockets |-> {},       \* io.sockets.sockets: the ids connected
     sent |-> "none"]      \* the last message sent to the room

InitRoom(n, st, sc) ==
    /\ phase = "new"
    /\ settings = st
    /\ scale = sc
    /\ players = [i \in 0..(n - 1) |-> [hand |-> EmptyBag, calledUno |-> FALSE]]
    /\ deck = EmptyBag
    /\ discardPile = <<>>
    /\ currentPlayer = 0
    /\ currentColor = "null"
    /\ currentValue = "null"
    /\ direction = 1
    /\ stackedDrawCount = 0
    /\ hasDrawnThisTurn = FALSE
    /\ pendingSwap7 = {}
    /\ last = [op |-> "constructor", actor |-> 0, card |-> NoCard, prev |-> 0,
               result |-> [success |-> TRUE]]
    /\ steps = 0

\* the match engine is explored with the presence manager as constructed
Init ==
    /\ \E c \in Configs : InitRoom(c.n, c.st, c.sc)
    /\ presence = PlayerPresenceManager(2, CHOOSE o \in Options : TRUE)
    /\ event = Constructed
    /\ server = Listening

(***************************************************************************)
(* Actions                                                                 *)
(***************************************************************************)
\* socket.on('playerReady'): room.createDeck()
CreateDeck ==
    /\ phase = "new"
    /\ phase' = "built"
    /\ deck' = createDeck(settings, scale)
    /\ UNCHANGED <<settings, players, discardPile, currentPlayer, currentColor,
                   currentValue, direction, stackedDrawCount, hasDrawnThisTurn,
                   pendingSwap7, scale, last, steps, presence, event, server>>

\* socket.on('playerReady'): room.dealCards(...); room.gameStarted = true
DealCards ==
    /\ phase = "built"
    /\ \E o \in dealCards(Room, StartingCount(settings)) :
          /\ phase' = IF o.thrown THEN "crashed" ELSE "playing"
          /\ SetRoom(o.room)
          /\ last' = [op |-> "dealCards", actor |-> 0, card |-> NoCard, prev |-> 0,
                      result |-> [success |-> ~o.thrown]]
    /\ UNCHANGED <<settings, scale, steps, presence, event, server>>

Ids == 0..NumPlayers(Room)

\* the cards hand[cardIndex] can be: a card of the hand, or undefined
CardsAt(id) ==
    IF id \in DOMAIN players THEN BagToSet(players[id].hand) \cup {NoCard} ELSE {NoCard}

ColorsFor(card) == IF card.type = "wild" THEN ChosenColors ELSE {NoColor}

\* An operation that is refused and leaves the room as it was is a
\* stuttering step: last and steps keep the last operation that was
\* accepted or that changed the room.
Step(op, actor, card, o) ==
    /\ SetRoom(o.room)
    /\ IF o.result.success \/ o.room # Room
       THEN /\ last' = [op |-> op, actor |-> actor, card |-> card,
                        prev |-> currentPlayer, result |-> o.result]
            /\ steps' = steps + 1
       ELSE UNCHANGED <<last, steps>>
    /\ UNCHANGED <<settings, scale, presence, event, server>>

\* socket.on('playCard'): the room is deleted when a winner is reported
PlayCard(id, card, chosenColor) ==
    /\ phase = "playing"
    /\ steps < MaxSteps
    /\ \E o \in playCard(Room, id, card, chosenColor) :
          /\ Step("playCard", id, card, o)
          /\ phase' = IF o.result.success /\ o.result.winner # {}
                      THEN "over" ELSE "playing"

DrawCard(id) ==
    /\ phase = "playing"
    /\ steps < MaxSteps
    /\ \E o \in drawCard(Room, id) : Step("drawCard", id, NoCard, o)
    /\ UNCHANGED phase

ChooseSwapTarget(id, targetId) ==
    /\ phase = "playing"
    /\ steps < MaxSteps
    /\ \E o \in chooseSwapTarget(Room, id, targetId) : Step("chooseSwapTarget", id, NoCard, o)
    /\ UNCHANGED phase

CallUno(id) ==
    /\ phase = "playing"
    /\ steps < MaxSteps
    /\ \E o \in callUno(Room, id) : Step("callUno", id, NoCard, o)
    /\ UNCHANGED phase

CatchUno(id, caughtId) ==
    /\ phase = "playing"
    /\ steps < MaxSteps
    /\ \E o \in catchUnoViolation(Room, id, caughtId) : Step("catchUno", id, NoCard, o)
    /\ UNCHANGED phase

Next ==
    \/ CreateDeck
    \/ DealCards
    \/ \E id \in Ids : \E card \in CardsAt(id) : \E chosenColor \in ColorsFor(card) :
          PlayCard(id, card, chosenColor)
    \/ \E id \in Ids : DrawCard(id)
    \/ \E id \in Ids, targetId \in Ids : ChooseSwapTarget(id, targetId)
    \/ \E id \in Ids : CallUno(id)
    \/ \E id \in Ids, caughtId \in Ids : CatchUno(id, caughtId)

Spec == Init /\ [][Next]_vars

(***************************************************************************)
(* Vocabulary of the properties                                            *)
(***************************************************************************)
Playing == phase = "playing"

Dealt == phase \in {"playing", "over"}

PlayerIds == DOMAIN players

RECURSIVE SumHands(_, _)
SumHands(this, i) ==
    IF i = NumPlayers(this) THEN 0 ELSE HandSize(this, i) + SumHands(this, i + 1)

\* deckSize + discardSize + sum of all hand sizes
TotalOf(this) == BagCardinality(this.deck) + Len(this.discardPile) + SumHands(this, 0)

\* the participant after i in direction dir among n
SuccOf(i, dir, n) == (i + dir) % n

\* the cards hand[cardIndex] can be for participant id, and the colors
\* that can come with them
PlayInputs ==
    UNION {UNION {{<<id, card, color>> : color \in ColorsFor(card)} :
                     card \in BagToSet(players[id].hand)} :
              id \in PlayerIds}

\* every outcome of every operation on the room as it is, whoever calls
AllOutcomes ==
    UNION {UNION {UNION {playCard(Room, id, card, color) : color \in ColorsFor(card)} :
                     card \in CardsAt(id)} :
              id \in Ids}
    \cup UNION {drawCard(Room, id) : id \in Ids}
    \cup UNION {chooseSwapTarget(Room, id, t) : id \in Ids, t \in Ids}
    \cup UNION {callUno(Room, id) : id \in Ids}
    \cup UNION {catchUnoViolation(Room, id, t) : id \in Ids, t \in Ids}

(***************************************************************************)
(* C1.  From the end of deal onward no operation, accepted or rejected,    *)
(* changes deckSize + discardSize + the sum of all hand sizes.             *)
(***************************************************************************)
C1_TotalPreserved == [][Playing => TotalOf(Room)' = TotalOf(Room)]_vars

\* a catch has moved two penalty cards from the deck into a hand
C1_Witness ==
    /\ Dealt
    /\ last.op = "catchUno"
    /\ last.result.success
    /\ steps = MaxSteps

(***************************************************************************)
(* C2.  From the end of deal onward deckSize + discardSize + the sum of    *)
(* all hand sizes equals the number of cards createDeck built, also when   *)
(* action or wild cards were popped in the search for the start card.      *)
(***************************************************************************)
C2_TotalIsBuilt == Dealt => TotalOf(Room) = Len(createDeckSeq(settings, scale))

(***************************************************************************)
(* C3.  Every rejected match action leaves the whole match state           *)
(* unchanged, in particular a non-current player's play that passes the    *)
(* jump-in test and is then refused by canPlay.                            *)
(***************************************************************************)
C3_RejectedUnchanged ==
    Playing => \A o \in AllOutcomes : ~o.result.success => o.room = Room

(***************************************************************************)
(* C4.  After any sequence of operations currentPlayer is an index in      *)
(* [0, participantCount) and direction is +1 or -1.                        *)
(***************************************************************************)
C4_TurnInRange ==
    Dealt => /\ currentPlayer \in 0..(NumPlayers(Room) - 1)
             /\ direction \in {1, -1}

\* a Reverse in a three-participant match has taken the turn from
\* participant 0 backwards to participant 2
C4_Witness ==
    /\ Playing
    /\ NumPlayers(Room) = 3
    /\ last.op = "playCard"
    /\ last.card.value = "Reverse"
    /\ last.actor = 0
    /\ direction = -1
    /\ currentPlayer = 2

(***************************************************************************)
(* C5.  canPlay(card) is decided by the card, the active color and value,  *)
(* the pending draw stack and the stacking flag alone: with stacking       *)
(* enabled and a pending stack it is true exactly when the card's value    *)
(* is the active penalty value (+2 on +2, Wild+4 on Wild+4), whatever the  *)
(* color; otherwise exactly when the card is a wild or shares the active   *)
(* color or the active value.                                              *)
(***************************************************************************)
\* every card of the code's full deck
FullDeckCards ==
    {Card(c, v, "number") : c \in {"red", "blue", "green", "yellow"},
                            v \in {"0", "1", "2", "3", "4", "5", "6", "7", "8", "9"}}
    \cup {Card(c, v, "action") : c \in {"red", "blue", "green", "yellow"},
                                 v \in {"Skip", "Reverse", "+2"}}
    \cup {Card("wild", v, "wild") : v \in {"Wild", "Wild+4", "+12"}}

\* a room that has nothing of this one but the four values canPlay may read
OnlyLegalityInputs ==
    [settings         |-> Rules(settings.allowStacking, FALSE, FALSE, FALSE, 0),
     players          |-> <<>>,
     deck             |-> EmptyBag,
     discardPile      |-> <<>>,
     currentPlayer    |-> 0,
     currentColor     |-> currentColor,
     currentValue     |-> currentValue,
     direction        |-> 1,
     stackedDrawCount |-> stackedDrawCount,
     hasDrawnThisTurn |-> FALSE,
     pendingSwap7     |-> {}]

LegalBySpec(card) ==
    IF settings.allowStacking /\ stackedDrawCount > 0
    THEN card.value \in {"+2", "Wild+4"} /\ card.value = currentValue
    ELSE card.type = "wild" \/ card.color = currentColor \/ card.value = currentValue

C5_CanPlay ==
    [](Playing =>
          LET this == Room
              only == OnlyLegalityInputs
          IN  \A card \in FullDeckCards :
                  /\ canPlayCard(this, card) = LegalBySpec(card)
                  /\ canPlayCard(only, card) = canPlayCard(this, card))

\* a stack is pending and a participant holds a card of the active color
\* that the stack makes illegal
C5_Witness ==
    /\ Playing
    /\ settings.allowStacking
    /\ stackedDrawCount > 0
    /\ \E i \in PlayerIds : \E card \in BagToSet(players[i].hand) :
          /\ card.color = currentColor
          /\ card.value # currentValue
          /\ ~canPlayCard(Room, card)

(***************************************************************************)
(* C6.  A playCard by a participant who is not the current player is       *)
(* accepted exactly when jump-in is enabled, the card passes canPlay, and  *)
(* the card is an exact duplicate of the active card (same kind and value, *)
(* for number cards the same color) or a penalty card whose color matches  *)
(* the active color; otherwise it fails with not-your-turn.  An accepted   *)
(* jump-in makes the actor the current player before the effect resolves.  *)
(***************************************************************************)
PenaltyValues == {"+2", "Wild+4", "+12"}

ExactDuplicate(card) ==
    LET active == Top(discardPile)
    IN  /\ card.type = active.type
        /\ card.value = active.value
        /\ card.type = "number" => card.color = active.color

JumpInBySpec(card) ==
    /\ settings.allowJumpIn
    /\ LegalBySpec(card)
    /\ \/ ExactDuplicate(card)
       \/ (card.value \in PenaltyValues /\ card.color = currentColor)

C6_JumpIn ==
    Playing => \A in \in PlayInputs :
        in[1] # currentPlayer =>
            \A o \in playCard(Room, in[1], in[2], in[3]) :
                /\ o.result.success <=> JumpInBySpec(in[2])
                /\ ~o.result.success => o.result.error = "Not your turn"

(***************************************************************************)
(* C7.  Playing a penalty card of amount k (+2: 2, Wild+4: 4): with        *)
(* stacking enabled the stack grows by exactly k, nobody draws, and the    *)
(* turn advances exactly once; with stacking disabled the next player in   *)
(* the current direction draws k cards immediately, the stack stays 0 and  *)
(* that player is skipped.  A +12 always makes the next player draw 12     *)
(* and skips them.                                                         *)
(* As amended: the next player draws k cards, or all the cards of the deck *)
(* and of the discard pile under the played card when these are fewer      *)
(* than k.                                                                 *)
(***************************************************************************)
Amount(card) ==
    CASE card.value = "+2" -> 2
      [] card.value = "Wild+4" -> 4
      [] card.value = "+12" -> 12

OtherHandsKept(r, actor) ==
    \A i \in PlayerIds \ {actor} : r.players[i].hand = players[i].hand

\* what a successful play of the penalty card by actor must leave, the next
\* player drawing `drawn` cards when the penalty is not stacked
PenaltyPost(r, actor, card, drawn) ==
    LET n == NumPlayers(Room)
        victim == SuccOf(actor, direction, n)
    IN  IF settings.allowStacking /\ card.value # "+12"
        THEN /\ r.stackedDrawCount = stackedDrawCount + Amount(card)
             /\ OtherHandsKept(r, actor)
             /\ r.deck = deck
             /\ r.currentPlayer = victim
        ELSE /\ HandSize(r, victim) = HandSize(Room, victim) + drawn
             /\ \A i \in PlayerIds \ {actor, victim} : r.players[i].hand = players[i].hand
             /\ r.stackedDrawCount = 0
             /\ r.currentPlayer = SuccOf(victim, direction, n)

\* the cards a draw can take once a card has been played: the deck and
\* the discard pile as it was before the play
Drawable == BagCardinality(deck) + Len(discardPile)

C7_PenaltyDrawsK ==
    Playing => \A in \in PlayInputs :
        in[2].value \in PenaltyValues =>
            \A o \in playCard(Room, in[1], in[2], in[3]) :
                o.result.success => PenaltyPost(o.room, in[1], in[2], Amount(in[2]))

C7_PenaltyDrawsAvailable ==
    Playing => \A in \in PlayInputs :
        in[2].value \in PenaltyValues =>
            \A o \in playCard(Room, in[1], in[2], in[3]) :
                o.result.success =>
                    PenaltyPost(o.room, in[1], in[2], Min(Amount(in[2]), Drawable))

\* the first play of a match without stacking was a Wild+4 and the next
\* player holds the starting hand and four more cards
C7_Witness ==
    /\ Dealt
    /\ ~settings.allowStacking
    /\ steps = 1
    /\ last.op = "playCard"
    /\ last.card.value = "Wild+4"
    /\ HandSize(Room, SuccOf(last.actor, direction, NumPlayers(Room)))
          = StartingCount(settings) + 4

(***************************************************************************)
(* C8.  Whenever the pending draw stack is positive, a drawCard by the     *)
(* current player succeeds regardless of hasDrawnThisTurn, adds the whole  *)
(* stack to that player's hand in that single call (fewer only when deck   *)
(* and discard pile are exhausted), sets the stack to 0, and advances the  *)
(* turn exactly once.                                                      *)
(* drawCard tests hasDrawnThisTurn before the stack; the first conjunct    *)
(* states that the flag is never set while a stack is pending, so that no  *)
(* such draw is refused by it.                                             *)
(***************************************************************************)
C8_StackAbsorbed ==
    (Playing /\ stackedDrawCount > 0) =>
        /\ ~hasDrawnThisTurn
        /\ \A o \in drawCard(Room, currentPlayer) :
              /\ o.result.success
              /\ o.result.drewStacked
              /\ HandSize(o.room, currentPlayer)
                    = HandSize(Room, currentPlayer)
                        + Min(stackedDrawCount, BagCardinality(deck) + Len(discardPile) - 1)
              /\ OtherHandsKept(o.room, currentPlayer)
              /\ o.room.stackedDrawCount = 0
              /\ o.room.currentPlayer = SuccOf(currentPlayer, direction, NumPlayers(Room))
              /\ o.room.direction = direction

\* two +2 were stacked and the player they reached has drawn the four cards
C8_Witness ==
    /\ Dealt
    /\ last.op = "drawCard"
    /\ last.result.success
    /\ last.result.drewStacked
    /\ last.result.stackCount = 4
    /\ HandSize(Room, last.actor) = StartingCount(settings) + 4
    /\ stackedDrawCount = 0
    /\ currentPlayer = SuccOf(last.actor, direction, NumPlayers(Room))

(***************************************************************************)
(* C9.  Playing a 7 with the special-0/7 rule enabled sets the pending     *)
(* swap choice to the actor, returns a needs-target result with no winner  *)
(* and leaves the actor as current player; while the swap choice is        *)
(* pending the turn does not advance and no other play or draw takes       *)
(* effect until that actor's chooseSwapTarget succeeds.                    *)
(***************************************************************************)
\* the step is an operation that was accepted or changed the room
Acted == steps' # steps

SevenSuspends ==
    (/\ Acted
     /\ last'.op = "playCard"
     /\ last'.result.success
     /\ last'.card.value = "7"
     /\ settings.allowSpecial07)
    => /\ pendingSwap7' = {last'.actor}
       /\ last'.result.needSwapTarget
       /\ last'.result.winner = {}
       /\ currentPlayer' = last'.actor

NothingWhileSwapPending ==
    (Playing /\ pendingSwap7 # {} /\ Acted)
    => \/ /\ last'.op = "chooseSwapTarget"
          /\ last'.actor \in pendingSwap7
          /\ last'.result.success
       \/ /\ last'.op \notin {"playCard", "drawCard"}
          /\ pendingSwap7' = pendingSwap7
          /\ currentPlayer' = currentPlayer

C9_SwapSuspendsTurn == [][SevenSuspends /\ NothingWhileSwapPending]_vars

(***************************************************************************)
(* C10.  chooseSwapTarget(actor, target) succeeds exactly when the pending *)
(* swap choice is the actor and target is a different participant of the   *)
(* match (otherwise it fails with no-swap-pending, not-your-swap or        *)
(* self-swap); on success the hands of actor and target are exchanged,     *)
(* every other hand is untouched, the pending swap choice is cleared, and  *)
(* the turn advances exactly once, the new current player being the        *)
(* actor's successor in the current direction.                             *)
(***************************************************************************)
SwapErrors == {"No swap pending", "Not your swap", "Cannot swap with yourself"}

C10_ChooseSwapTarget ==
    Playing => \A id \in Ids, targetId \in Ids :
        \A o \in chooseSwapTarget(Room, id, targetId) :
            /\ o.result.success <=> (/\ pendingSwap7 = {id}
                                     /\ targetId \in PlayerIds
                                     /\ targetId # id)
            /\ (~o.result.success /\ targetId \in PlayerIds)
                  => o.result.error \in SwapErrors
            /\ o.result.success =>
                  /\ o.room.players[id].hand = players[targetId].hand
                  /\ o.room.players[targetId].hand = players[id].hand
                  /\ \A i \in PlayerIds \ {id, targetId} :
                        o.room.players[i].hand = players[i].hand
                  /\ o.room.pendingSwap7 = {}
                  /\ o.room.currentPlayer = SuccOf(id, direction, NumPlayers(Room))

(***************************************************************************)
(* C11.  In every reachable state a participant's declare flag (calledUno) *)
(* is true only if that participant's hand holds exactly one card: every   *)
(* operation that leaves a hand at another size (voluntary or stacked      *)
(* draw, forced penalty draw, catch penalty, 0-swap, 7-swap, play) leaves  *)
(* that participant's flag false.                                          *)
(***************************************************************************)
C11_FlagOnlyAtOne ==
    Dealt => \A i \in PlayerIds : players[i].calledUno => HandSize(Room, i) = 1

(***************************************************************************)
(* C12.  catchViolation(catcher, target) succeeds exactly when target's    *)
(* hand size is 1 and target's declare flag is unset, for any catcher and  *)
(* target in the match; on success target's hand size becomes 3 and        *)
(* target's flag is false, and on failure nothing changes.                 *)
(* As amended: on success target's hand grows by two cards, or by the      *)
(* cards left in the deck and under the top of the discard pile when       *)
(* these are fewer than two.                                               *)
(***************************************************************************)
\* the cards a draw can take with no card played since: the deck and the
\* discard pile under its top card
Available == BagCardinality(deck) + Len(discardPile) - 1

CatchPost(o, catcherId, caughtId, drawn) ==
    /\ o.result.success <=> (/\ catcherId \in PlayerIds
                             /\ caughtId \in PlayerIds
                             /\ HandSize(Room, caughtId) = 1
                             /\ ~players[caughtId].calledUno)
    /\ o.result.success =>
          /\ HandSize(o.room, caughtId) = 1 + drawn
          /\ ~o.room.players[caughtId].calledUno
          /\ OtherHandsKept(o.room, caughtId)
    /\ ~o.result.success => o.room = Room

C12_CatchMakesThree ==
    Playing => \A catcherId \in Ids, caughtId \in Ids :
        \A o \in catchUnoViolation(Room, catcherId, caughtId) :
            CatchPost(o, catcherId, caughtId, 2)

C12_CatchDrawsAvailable ==
    [](Playing => \A catcherId \in Ids, caughtId \in Ids :
          \A o \in catchUnoViolation(Room, catcherId, caughtId) :
              CatchPost(o, catcherId, caughtId, Min(2, Available)))

\* the first operation of a match dealt one card each was a catch, and the
\* player caught holds three cards with the flag unset
C12_Witness ==
    /\ Dealt
    /\ StartingCount(settings) = 1
    /\ steps = 1
    /\ last.op = "catchUno"
    /\ last.result.success
    /\ \E i \in PlayerIds : HandSize(Room, i) = 3 /\ ~players[i].calledUno

VoluntaryDrawPost(o) ==
    LET drawn == Hand(o.room, currentPlayer) (-) Hand(Room, currentPlayer)
    IN  /\ Hand(o.room, currentPlayer) = Hand(Room, currentPlayer) (+) drawn
        /\ BagCardinality(drawn) = 1
        /\ \A card \in BagToSet(drawn) :
              IF canPlayCard(Room, card)
              THEN o.room.currentPlayer = currentPlayer
              ELSE o.room.currentPlayer
                      = SuccOf(currentPlayer, direction, NumPlayers(Room))

C14_VoluntaryDraw ==
    (Playing /\ stackedDrawCount = 0) =>
        \A o \in drawCard(Room, currentPlayer) :
            o.result.success => VoluntaryDrawPost(o)

(***************************************************************************)
(* C15.  drawCard is accepted only from the current player and at most     *)
(* once voluntarily per turn: hasDrawnThisTurn is false immediately after  *)
(* every advanceTurn, becomes true on a voluntary draw, and a second       *)
(* voluntary drawCard by the same player before the turn advances is       *)
(* rejected.                                                               *)
(***************************************************************************)
\* drawCard is accepted from the current player with the flag unset only
DrawGate ==
    Playing => \A id \in Ids : \A o \in drawCard(Room, id) :
        /\ o.result.success => (id = currentPlayer /\ ~hasDrawnThisTurn)
        /\ ~o.result.success => o.room = Room

\* the step is an accepted operation that ran advanceTurn: a play that did
\* not stop for a swap target (Reverse between two players, which resets
\* the flag without advancing, included), a swap target chosen, a draw of
\* the stack or of a card that cannot be played
RanAdvanceTurn ==
    /\ Acted
    /\ last'.result.success
    /\ \/ last'.op = "playCard" /\ ~last'.result.needSwapTarget
       \/ last'.op = "chooseSwapTarget"
       \/ last'.op = "drawCard" /\ last'.result.drewStacked
       \/ last'.op = "drawCard" /\ ~last'.result.drewStacked
                                /\ ~last'.result.canPlayDrawn

\* the step is a voluntary draw after which the turn stays with the actor
DrewAndStays ==
    /\ Acted
    /\ last'.op = "drawCard"
    /\ last'.result.success
    /\ ~last'.result.drewStacked
    /\ last'.result.canPlayDrawn

OncePerTurn ==
    /\ RanAdvanceTurn => ~hasDrawnThisTurn'
    /\ DrewAndStays =>
          /\ last'.actor = currentPlayer
          /\ ~hasDrawnThisTurn
          /\ hasDrawnThisTurn'
          /\ currentPlayer' = currentPlayer
          /\ \A o \in drawCard(Room', last'.actor) :
                /\ ~o.result.success
                /\ o.result.error = "You can only draw once per turn"

C15_DrawOncePerTurn == []DrawGate /\ [][OncePerTurn]_vars

\* the current player has drawn a card that can be played, keeps the turn
\* and is refused a second draw
C15_Witness ==
    /\ Playing
    /\ last.op = "drawCard"
    /\ last.result.success
    /\ ~last.result.drewStacked
    /\ last.result.canPlayDrawn
    /\ currentPlayer = last.actor
    /\ hasDrawnThisTurn
    /\ \A o \in drawCard(Room, currentPlayer) : ~o.result.success

(***************************************************************************)
(* C16.  Playing Reverse flips direction; in a match of two participants   *)
(* the player who played it remains the current player (and may draw       *)
(* again, hasDrawnThisTurn being false), while with three or more          *)
(* participants the turn advances exactly once in the new direction.       *)
(***************************************************************************)
C16_Reverse ==
    Playing => \A in \in PlayInputs :
        in[2].value = "Reverse" =>
            \A o \in playCard(Room, in[1], in[2], in[3]) :
                o.result.success =>
                    /\ o.room.direction = -direction
                    /\ ~o.room.hasDrawnThisTurn
                    /\ IF NumPlayers(Room) = 2
                       THEN /\ o.room.currentPlayer = in[1]
                            /\ o.result.winner = {} =>
                                  \A d \in drawCard(o.room, in[1]) : d.result.success
                       ELSE o.room.currentPlayer
                               = SuccOf(in[1], -direction, NumPlayers(Room))

\* between two players, a player drew a Reverse, played it, and is the
\* current player again with the draw gate open
C16_Witness ==
    /\ Playing
    /\ NumPlayers(Room) = 2
    /\ last.op = "playCard"
    /\ last.result.success
    /\ last.card.value = "Reverse"
    /\ currentPlayer = last.actor
    /\ direction = -1
    /\ ~hasDrawnThisTurn
    /\ HandSize(Room, last.actor) = StartingCount(settings)

(***************************************************************************)
(* C17.  With the special-0/7 rule enabled, playing a 0 exchanges the      *)
(* actor's remaining hand with the hand of the next player in the current  *)
(* direction, leaves the declare flags of both participants false          *)
(* whatever their new hand sizes, and advances the turn exactly once.      *)
(***************************************************************************)
C17_ZeroSwaps ==
    (Playing /\ settings.allowSpecial07) => \A in \in PlayInputs :
        in[2].value = "0" =>
            \A o \in playCard(Room, in[1], in[2], in[3]) :
                o.result.success =>
                    LET next == SuccOf(in[1], direction, NumPlayers(Room))
                    IN  /\ o.room.players[in[1]].hand = players[next].hand
                        /\ o.room.players[next].hand
                              = players[in[1]].hand (-) SetToBag({in[2]})
                        /\ \A i \in PlayerIds \ {in[1], next} :
                              o.room.players[i] = players[i]
                        /\ ~o.room.players[in[1]].calledUno
                        /\ ~o.room.players[next].calledUno
                        /\ o.room.currentPlayer = next
                        /\ o.room.direction = direction

\* the first play of a match dealt two cards each was a 0: the next player
\* holds the one card the actor had left, undeclared, and is to move
C17_Witness ==
    /\ Playing
    /\ settings.allowSpecial07
    /\ StartingCount(settings) = 2
    /\ steps = 1
    /\ last.op = "playCard"
    /\ last.result.success
    /\ last.card.value = "0"
    /\ currentPlayer = SuccOf(last.actor, direction, NumPlayers(Room))
    /\ HandSize(Room, currentPlayer) = 1
    /\ HandSize(Room, last.actor) = 2
    /\ ~players[currentPlayer].calledUno
    /\ \A o \in catchUnoViolation(Room, last.actor, currentPlayer) : o.result.success

(***************************************************************************)
(* C18.  In every reachable state from the end of deal onward the active   *)
(* color is one of red, blue, green, yellow and never wild, for every      *)
(* chosenColor argument a client can pass to playCard (including none).    *)
(***************************************************************************)
GameColors == {"red", "blue", "green", "yellow"}

C18_ActiveColor == Dealt => currentColor \in GameColors

(***************************************************************************)
(* C19.  reshuffle keeps the top discard card as the sole discard card     *)
(* and turns the remaining discard cards (same multiset, reordered) into   *)
(* the deck when the discard pile has more than one card; when the         *)
(* discard pile has at most one card it changes neither deck nor discard   *)
(* pile, and a draw attempted with an empty deck then adds no card and     *)
(* raises no error.                                                        *)
(***************************************************************************)
C19_Reshuffle ==
    [](Dealt =>
          LET r == reshuffleDeck(Room)
          IN  IF Len(discardPile) > 1
              THEN /\ r.discardPile = <<discardPile[Len(discardPile)]>>
                   /\ BagCardinality(r.deck) = Len(discardPile) - 1
                   /\ r.deck (+) BagOfSeq(r.discardPile) = BagOfSeq(discardPile)
                   /\ r = [Room EXCEPT !.deck = r.deck, !.discardPile = r.discardPile]
              ELSE /\ r = Room
                   /\ deck = EmptyBag =>
                         /\ \A i \in PlayerIds : \A count \in 1..4 :
                               drawCards(Room, i, count) = {Room}
                         /\ (Playing /\ ~hasDrawnThisTurn) =>
                               \A o \in drawCard(Room, currentPlayer) :
                                   /\ o.result.success
                                   /\ \A i \in PlayerIds :
                                         Hand(o.room, i) = Hand(Room, i)
                                   /\ o.room.deck = EmptyBag
                                   /\ o.room.discardPile = discardPile)

\* a play after which the cards under the played card were reshuffled into
\* the deck and drawn: the deck is empty and the played card is alone on the
\* discard pile, so that the next draw finds nothing
C19_Witness ==
    /\ Playing
    /\ last.op = "playCard"
    /\ last.result.success
    /\ discardPile = <<last.card>>
    /\ deck = EmptyBag
    /\ ~hasDrawnThisTurn

(***************************************************************************)
(* C20.  A successful playCard that is not suspended for a swap target     *)
(* reports the actor as winner exactly when the actor's hand is empty      *)
(* when the call returns, and reports no winner otherwise; a needs-target  *)
(* result never reports a winner.                                          *)
(***************************************************************************)
C20_Winner ==
    [](Playing => \A in \in PlayInputs :
          \A o \in playCard(Room, in[1], in[2], in[3]) :
              o.result.success =>
                  IF o.result.needSwapTarget
                  THEN o.result.winner = {}
                  ELSE o.result.winner
                          = IF HandSize(o.room, in[1]) = 0 THEN {in[1]} ELSE {})

\* a match ended by a play that left the actor's hand empty
C20_Witness ==
    /\ phase = "over"
    /\ last.op = "playCard"
    /\ last.result.success
    /\ ~last.result.needSwapTarget
    /\ last.result.winner = {last.actor}
    /\ HandSize(Room, last.actor) = 0

(***************************************************************************)
(* Presence manager: src/public/js/playerPresence.js                       *)
(*                                                                         *)
(* The operators below take the manager (`this`) and return the manager    *)
(* after the call.  A Map is a function whose domain is the set of its     *)
(* keys.  A timeout handle is identified with the time its callback is     *)
(* due; clearTimeout drops the callback from `timeouts`, and a handle      *)
(* whose callback has run stays in disconnectTimers until it is cleared,   *)
(* as in the code.                                                         *)
(***************************************************************************)
JOINING == "JOINING"

LOBBY == "LOBBY"

READY == "READY"

IN_GAME == "IN_GAME"

DISCONNECTED == "DISCONNECTED"

TIMEOUT == "TIMEOUT"

PlayerState == {JOINING, LOBBY, READY, IN_GAME, DISCONNECTED, TIMEOUT, "RECONNECTING"}

\* Map.has / Map.set / Map.delete
Has(m, k) == k \in DOMAIN m

MapSet(m, k, v) == [x \in DOMAIN m \cup {k} |-> IF x = k THEN v ELSE m[x]]

MapDelete(m, k) == [x \in DOMAIN m \ {k} |-> m[x]]

emit(this, e, playerId) == [this EXCEPT !.emitted = @ \cup {<<e, playerId>>}]

addPlayer(this, playerId, state) ==
    emit([this EXCEPT
            !.players = MapSet(@, playerId, [state |-> state, ready |-> FALSE]),
            !.lastHeartbeat = MapSet(@, playerId, this.now)],
         "player-joined", playerId)

clearDisconnectTimer_Keeps(this, playerId) == this

clearDisconnectTimer(this, playerId) ==
    IF Has(this.disconnectTimers, playerId)
    THEN [this EXCEPT
            !.timeouts = {t \in @ : t[1] # playerId \/ t[2] # this.disconnectTimers[playerId].due},
            !.disconnectTimers = MapDelete(@, playerId)]
    ELSE this

removePlayer_KeepsTimer(this, playerId) ==
    IF Has(this.players, playerId)
    THEN emit([this EXCEPT !.players = MapDelete(@, playerId),
                           !.lastHeartbeat = MapDelete(@, playerId)],
              "player-removed", playerId)
    ELSE this

removePlayer(this, playerId) ==
    IF Has(this.players, playerId)
    THEN emit(clearDisconnectTimer(
                [this EXCEPT !.players = MapDelete(@, playerId),
                             !.lastHeartbeat = MapDelete(@, playerId)],
                playerId),
              "player-removed", playerId)
    ELSE this

updatePlayerState(this, playerId, newState) ==
    IF Has(this.players, playerId)
    THEN emit([this EXCEPT !.players[playerId].state = newState],
              "player-state-changed", playerId)
    ELSE this

allPlayersReady(this) ==
    /\ Cardinality(DOMAIN this.players) >= this.minPlayers
    /\ \A p \in DOMAIN this.players : this.players[p].ready

setPlayerReady(this, playerId, isReady) ==
    IF Has(this.players, playerId)
    THEN LET flagged == [this EXCEPT !.players[playerId].ready = isReady]
             moved == IF isReady
                      THEN emit(updatePlayerState(flagged, playerId, READY),
                                "player-ready", playerId)
                      ELSE emit(updatePlayerState(flagged, playerId, LOBBY),
                                "player-unready", playerId)
         IN  IF allPlayersReady(moved)
             THEN emit(moved, "all-players-ready", NoId)
             ELSE moved
    ELSE this

\* Date.now() - this.lastHeartbeat.get(playerId)
timeSince(this, playerId) == this.now - this.lastHeartbeat[playerId]

finalPresenceCheck_NotStrict(this) ==
    LET missingPlayers ==
            {p \in DOMAIN this.players : timeSince(this, p) >= this.heartbeatInterval * 2}
    IN  [success |-> missingPlayers = {}, missingPlayers |-> missingPlayers]

finalPresenceCheck(this) ==
    LET missingPlayers ==
            {p \in DOMAIN this.players : timeSince(this, p) > this.heartbeatInterval * 2}
    IN  [success |-> missingPlayers = {}, missingPlayers |-> missingPlayers]

stopHeartbeat(this) ==
    IF this.heartbeatTimer # NoTimer
    THEN emit([this EXCEPT !.heartbeatTimer = NoTimer], "heartbeat-stopped", NoId)
    ELSE this

startHeartbeat(this) ==
    emit([stopHeartbeat(this) EXCEPT !.heartbeatTimer = this.now + this.heartbeatInterval],
         "heartbeat-started", NoId)

startDisconnectTimer(this, playerId) ==
    LET cleared == clearDisconnectTimer(this, playerId)
        due == this.now + this.reconnectTimeout
    IN  [cleared EXCEPT !.timeouts = @ \cup {<<playerId, due>>},
                        !.disconnectTimers = MapSet(@, playerId, [due |-> due])]

onPlayerDisconnect(this, playerId) ==
    IF ~Has(this.players, playerId) THEN this
    ELSE startDisconnectTimer(
            emit([this EXCEPT !.players[playerId].state = DISCONNECTED],
                 "player-disconnected", playerId),
            playerId)

onPlayerReconnect(this, playerId) ==
    IF ~Has(this.players, playerId) THEN this
    ELSE LET cleared == clearDisconnectTimer(this, playerId)
             player == cleared.players[playerId]
             newState == IF player.ready THEN READY
                         ELSE IF player.state = IN_GAME THEN IN_GAME ELSE LOBBY
         IN  emit([cleared EXCEPT !.players[playerId].state = newState],
                  "player-reconnected", playerId)

onPlayerTimeout(this, playerId) ==
    IF ~Has(this.players, playerId) THEN this
    ELSE emit([this EXCEPT !.players[playerId].state = TIMEOUT],
              "player-timeout", playerId)

receiveHeartbeat(this, playerId) ==
    IF Has(this.players, playerId)
    THEN LET seen == [this EXCEPT !.lastHeartbeat = MapSet(@, playerId, this.now)]
         IN  IF seen.players[playerId].state = DISCONNECTED
             THEN onPlayerReconnect(seen, playerId)
             ELSE seen
    ELSE this

checkOne_NotStrict(this, playerId) ==
    IF ~Has(this.players, playerId) THEN this
    ELSE IF /\ this.players[playerId].state \in {IN_GAME, READY, LOBBY}
            /\ timeSince(this, playerId) >= this.heartbeatInterval * 2
         THEN onPlayerDisconnect(this, playerId)
         ELSE this

\* the body of the loop of checkHeartbeats for one entry of lastHeartbeat
checkOne(this, playerId) ==
    IF ~Has(this.players, playerId) THEN this
    ELSE IF /\ this.players[playerId].state \in {IN_GAME, READY, LOBBY}
            /\ timeSince(this, playerId) > this.heartbeatInterval * 2
            /\ this.players[playerId].state # DISCONNECTED
         THEN onPlayerDisconnect(this, playerId)
         ELSE this

\* the loop of checkHeartbeats over the entries `ids`; the entries are
\* independent of each other, so the order of the Map is not kept
RECURSIVE checkEntries(_, _)
checkEntries(this, ids) ==
    IF ids = {} THEN this
    ELSE LET playerId == CHOOSE p \in ids : TRUE
         IN  checkEntries(checkOne(this, playerId), ids \ {playerId})

checkHeartbeats(this) == checkEntries(this, DOMAIN this.lastHeartbeat)

(***************************************************************************)
(* Presence manager: the calls made on it                                  *)
(*                                                                         *)
(* Every public method can be called for any socket id at any time; the    *)
(* server calls addPlayer with LOBBY (createLobby, joinLobby),             *)
(* setPlayerReady (playerReady), finalPresenceCheck, updatePlayerState     *)
(* with IN_GAME and startHeartbeat (match start), receiveHeartbeat         *)
(* (heartbeat) and onPlayerDisconnect (disconnect).  The runtime runs the  *)
(* interval callback every heartbeatInterval ticks and a timeout callback  *)
(* when it is due: the clock does not pass a callback that is due.         *)
(***************************************************************************)
PIds == {"p1", "p2"}

gameVars == <<phase, settings, players, deck, discardPile, currentPlayer,
              currentColor, currentValue, direction, stackedDrawCount,
              hasDrawnThisTurn, pendingSwap7, scale, last, steps>>

\* the manager when a call starts: nothing emitted yet
Fresh == [presence EXCEPT !.emitted = {}]

Call(op, playerId, arg, after) ==
    /\ presence' = after
    /\ event' = [op |-> op, id |-> playerId, arg |-> arg]
    /\ UNCHANGED <<gameVars, server>>

AddPlayer(playerId, state) ==
    Call("addPlayer", playerId, state, addPlayer(Fresh, playerId, state))

RemovePlayer(playerId) ==
    Call("removePlayer", playerId, NoId, removePlayer(Fresh, playerId))

SetPlayerReady(playerId, isReady) ==
    Call("setPlayerReady", playerId, isReady, setPlayerReady(Fresh, playerId, isReady))

\* match start: pm.updatePlayerState(p.id, PlayerState.IN_GAME)
UpdatePlayerState(playerId) ==
    Call("updatePlayerState", playerId, IN_GAME, updatePlayerState(Fresh, playerId, IN_GAME))

FinalPresenceCheck ==
    Call("finalPresenceCheck", NoId, finalPresenceCheck(Fresh), Fresh)

StartHeartbeat ==
    Call("startHeartbeat", NoId, NoId, startHeartbeat(Fresh))

ReceiveHeartbeat(playerId) ==
    Call("receiveHeartbeat", playerId, NoId, receiveHeartbeat(Fresh, playerId))

\* socket.on('disconnect'): the transport reports the socket gone
OnPlayerDisconnect(playerId) ==
    Call("onPlayerDisconnect", playerId, NoId, onPlayerDisconnect(Fresh, playerId))

\* the setInterval callback of startHeartbeat
Sweep ==
    /\ presence.heartbeatTimer = presence.now
    /\ Call("checkHeartbeats", NoId, NoId,
            checkHeartbeats([Fresh EXCEPT !.heartbeatTimer = presence.now + presence.heartbeatInterval]))

\* the setTimeout callback of startDisconnectTimer; a handle whose callback
\* has run names nothing any more
Expire(playerId) ==
    /\ <<playerId, presence.now>> \in presence.timeouts
    /\ Call("onPlayerTimeout", playerId, NoId,
            onPlayerTimeout([Fresh EXCEPT !.timeouts = @ \ {<<playerId, presence.now>>},
                                          !.disconnectTimers[playerId].due = NoTimer],
                            playerId))

Due ==
    \/ presence.heartbeatTimer = presence.now
    \/ \E t \in presence.timeouts : t[2] = presence.now

\* a stored time, one tick later
Earlier(t, oldest) == IF t > oldest THEN t - 1 ELSE t

Tick ==
    /\ ~Due
    /\ Call("tick", NoId, NoId,
            [Fresh EXCEPT
                !.lastHeartbeat = [p \in DOMAIN @ |-> Earlier(@[p], 0)],
                !.disconnectTimers =
                    [p \in DOMAIN @ |-> [due |-> Earlier(@[p].due, NoTimer)]],
                !.timeouts = {<<t[1], t[2] - 1>> : t \in @},
                !.heartbeatTimer = IF @ = NoTimer THEN NoTimer ELSE @ - 1])

PresenceInit ==
    /\ \E c \in {Config(2, Rules(FALSE, FALSE, FALSE, FALSE, 1), TurnScale)} :
          InitRoom(c.n, c.st, c.sc)
    /\ \E o \in Options : presence = PlayerPresenceManager(2, o)
    /\ event = Constructed
    /\ server = Listening

PresenceNext ==
    \/ \E p \in PIds, s \in {JOINING, LOBBY} : AddPlayer(p, s)
    \/ \E p \in PIds : RemovePlayer(p)
    \/ \E p \in PIds, r \in BOOLEAN : SetPlayerReady(p, r)
    \/ \E p \in PIds : UpdatePlayerState(p)
    \/ FinalPresenceCheck
    \/ StartHeartbeat
    \/ \E p \in PIds : ReceiveHeartbeat(p)
    \/ \E p \in PIds : OnPlayerDisconnect(p)
    \/ Sweep
    \/ \E p \in PIds : Expire(p)
    \/ Tick

PresenceSpec == PresenceInit /\ [][PresenceNext]_vars

(***************************************************************************)
(* Vocabulary of the presence properties                                   *)
(***************************************************************************)
Tracked == DOMAIN presence.players

StateOf(this, p) == this.players[p].state

\* the grace timers of p whose callback is pending
PendingFor(this, p) == {t \in this.timeouts : t[1] = p}

\* p is marked DISCONNECTED and its next heartbeat arrives before a tick passes
Reconnected(p) == receiveHeartbeat(onPlayerDisconnect(Fresh, p), p)

(***************************************************************************)
(* C21.  A participant that is IN_GAME when it is marked DISCONNECTED and  *)
(* whose heartbeat arrives within the grace period is restored to READY    *)
(* if its ready flag is set and to IN_GAME otherwise, and its grace timer  *)
(* is cancelled.                                                           *)
(***************************************************************************)
C21_ReconnectRestores ==
    \A p \in Tracked :
        StateOf(presence, p) = IN_GAME =>
            LET after == Reconnected(p)
            IN  /\ StateOf(after, p) = IF presence.players[p].ready THEN READY ELSE IN_GAME
                /\ PendingFor(after, p) = {}


\* the step is the call `op` for participant p
Called(op, p) == event'.op = op /\ event'.id = p

(***************************************************************************)
(* C22.  The expiry of a grace timer moves its participant to TIMEOUT only *)
(* when the participant is still tracked and still DISCONNECTED; an        *)
(* expiry for a participant that was removed, has reconnected, was added   *)
(* again or was moved to another state changes no participant.             *)
(***************************************************************************)
C22_ExpiryGuarded ==
    [][\A p \in PIds :
          Called("onPlayerTimeout", p) =>
              IF p \in Tracked /\ StateOf(presence, p) = DISCONNECTED
              THEN StateOf(presence', p) = TIMEOUT
              ELSE presence'.players = presence.players]_vars


(***************************************************************************)
(* C23.  A heartbeat received while a participant is DISCONNECTED leaves   *)
(* no grace timer pending for it; a participant becomes TIMEOUT only       *)
(* by the expiry of a pending grace timer, and a grace timer comes to be   *)
(* pending only by a disconnect (a sweep or a disconnect notification).    *)
(* So the timer of the disconnect the heartbeat answered never moves the   *)
(* participant to TIMEOUT, however much time passes.                       *)
(***************************************************************************)
HeartbeatCancels(p) ==
    Called("receiveHeartbeat", p) /\ p \in Tracked /\ StateOf(presence, p) = DISCONNECTED
        => PendingFor(presence', p) = {}

TimeoutOnlyByExpiry(p) ==
    /\ p \in DOMAIN presence'.players
    /\ StateOf(presence', p) = TIMEOUT
    /\ ~(p \in Tracked /\ StateOf(presence, p) = TIMEOUT)
    => Called("onPlayerTimeout", p) /\ <<p, presence.now>> \in presence.timeouts

TimerOnlyByDisconnect(p) ==
    PendingFor(presence', p) # {} /\ PendingFor(presence, p) = {}
        => \/ Called("onPlayerDisconnect", p)
           \/ event'.op = "checkHeartbeats"

C23_HeartbeatStopsTimeout ==
    [][\A p \in PIds :
          HeartbeatCancels(p) /\ TimeoutOnlyByExpiry(p) /\ TimerOnlyByDisconnect(p)]_vars

\* a DISCONNECTED participant has just been reconnected by its heartbeat
C23_Witness ==
    /\ event.op = "receiveHeartbeat"
    /\ <<"player-reconnected", event.id>> \in presence.emitted
    /\ StateOf(presence, event.id) \in {READY, LOBBY}
    /\ PendingFor(presence, event.id) = {}


(***************************************************************************)
(* C24.  The expiry of the grace timer of a DISCONNECTED participant makes *)
(* it TIMEOUT, and a TIMEOUT participant stays TIMEOUT under every call    *)
(* (heartbeat, ready toggle, disconnect notification, sweep, match start)  *)
(* except its removal and its being added again.                           *)
(***************************************************************************)
C24_TimeoutTerminal ==
    [][\A p \in PIds :
          /\ Called("onPlayerTimeout", p) /\ p \in Tracked
                /\ StateOf(presence, p) = DISCONNECTED
             => StateOf(presence', p) = TIMEOUT
          /\ p \in Tracked /\ StateOf(presence, p) = TIMEOUT
                /\ ~Called("addPlayer", p) /\ ~Called("removePlayer", p)
             => p \in DOMAIN presence'.players /\ StateOf(presence', p) = TIMEOUT]_vars


(***************************************************************************)
(* C25.  Marking a participant DISCONNECTED starts one grace timer; a      *)
(* disconnect applied to a participant that is already DISCONNECTED        *)
(* changes nothing: no state, no timer (the pending one is neither         *)
(* restarted nor extended), no notification; and at most one grace timer   *)
(* is pending per participant.                                             *)
(***************************************************************************)
SingleTimer == \A p \in PIds : Cardinality(PendingFor(presence, p)) <= 1

DisconnectIdempotent(p) ==
    Called("onPlayerDisconnect", p) /\ p \in Tracked =>
        IF StateOf(presence, p) = DISCONNECTED
        THEN /\ presence'.players = presence.players
             /\ presence'.timeouts = presence.timeouts
             /\ presence'.emitted = {}
        ELSE /\ StateOf(presence', p) = DISCONNECTED
             /\ Cardinality(PendingFor(presence', p)) = 1

C25_DisconnectOnce ==
    []SingleTimer /\ [][\A p \in PIds : DisconnectIdempotent(p)]_vars


(***************************************************************************)
(* C26.  A liveness sweep moves to DISCONNECTED exactly the participants   *)
(* that are in LOBBY, READY or IN_GAME and whose last heartbeat is more    *)
(* than two heartbeat intervals old; it leaves every other participant     *)
(* (JOINING, DISCONNECTED, TIMEOUT, or heard within two intervals) as it   *)
(* was, and it adds and removes no participant.                            *)
(***************************************************************************)
Silent(this, p) == timeSince(this, p) > 2 * this.heartbeatInterval

SweptOut(this) ==
    {p \in DOMAIN this.players :
        StateOf(this, p) \in {LOBBY, READY, IN_GAME} /\ Silent(this, p)}

C26_SweepExact ==
    [][event'.op = "checkHeartbeats" =>
          /\ DOMAIN presence'.players = Tracked
          /\ \A p \in Tracked :
                IF p \in SweptOut(presence)
                THEN StateOf(presence', p) = DISCONNECTED
                ELSE presence'.players[p] = presence.players[p]]_vars

\* a sweep has marked one participant and left alone another whose last
\* heartbeat is exactly two intervals old
C26_Witness ==
    /\ event.op = "checkHeartbeats"
    /\ \E p, q \in Tracked :
          /\ <<"player-disconnected", p>> \in presence.emitted
          /\ StateOf(presence, p) = DISCONNECTED
          /\ StateOf(presence, q) \in {LOBBY, READY, IN_GAME}
          /\ timeSince(presence, q) = 2 * presence.heartbeatInterval


(***************************************************************************)
(* C27.  With the monitor running, the next sweep is never more than one   *)
(* heartbeat interval away, and a sweep marks DISCONNECTED every           *)
(* participant in LOBBY, READY or IN_GAME whose last heartbeat is more     *)
(* than two intervals old.  A participant that becomes DISCONNECTED gets   *)
(* a grace timer due exactly reconnectTimeout later; while no heartbeat    *)
(* of the participant and no removal follows, the timer keeps that due     *)
(* time, and it runs exactly when it is due, making the participant        *)
(* TIMEOUT.  (Callbacks run when they are due: the runtime's lateness is   *)
(* not modelled.)                                                          *)
(***************************************************************************)
MonitorOnTime ==
    presence.heartbeatTimer # NoTimer =>
        /\ presence.heartbeatTimer >= presence.now
        /\ presence.heartbeatTimer <= presence.now + presence.heartbeatInterval

GraceRunning ==
    \A p \in PIds :
        /\ \A t \in PendingFor(presence, p) :
              t[2] >= presence.now /\ t[2] <= presence.now + presence.reconnectTimeout
        /\ p \in Tracked /\ StateOf(presence, p) = DISCONNECTED
              => PendingFor(presence, p) # {}

\* the step is a disconnect of p: a notification of the transport, or a
\* sweep that finds p silent
Disconnects(p) ==
    \/ Called("onPlayerDisconnect", p) /\ p \in Tracked
    \/ event'.op = "checkHeartbeats" /\ p \in SweptOut(presence)

\* the step marks p DISCONNECTED: p was in another state
Marked(p) == Disconnects(p) /\ StateOf(presence, p) # DISCONNECTED

Answered(p) ==
    \/ Called("receiveHeartbeat", p) /\ p \in Tracked /\ StateOf(presence, p) = DISCONNECTED
    \/ Called("removePlayer", p) /\ p \in Tracked

\* what a step does to the grace timer of p, `marked` telling the steps
\* that start the grace period
GraceTimerStep(p, marked) ==
    LET old == PendingFor(presence, p)
        new == PendingFor(presence', p)
    IN  IF marked
        THEN /\ StateOf(presence', p) = DISCONNECTED
             /\ new = {<<p, presence.now + presence.reconnectTimeout>>}
        ELSE IF event'.op = "tick"
        THEN /\ \A t \in old : t[2] > presence.now
             /\ new = {<<p, t[2] - 1>> : t \in old}
        ELSE IF Called("onPlayerTimeout", p)
        THEN /\ <<p, presence.now>> \in old
             /\ new = old \ {<<p, presence.now>>}
             /\ p \in Tracked => StateOf(presence', p) = TIMEOUT
        ELSE IF Answered(p)
        THEN new = {}
        ELSE new = old

C27_Timing ==
    /\ [](MonitorOnTime /\ GraceRunning)
    /\ [][\A p \in PIds : GraceTimerStep(p, Marked(p))]_vars

\* the same with the grace period counted from the last disconnect of p,
\* whether or not p was DISCONNECTED already
GraceFromLastDisconnect ==
    /\ [](MonitorOnTime /\ GraceRunning)
    /\ [][\A p \in PIds : GraceTimerStep(p, Disconnects(p))]_vars


(***************************************************************************)
(* C28.  removePlayer deletes a tracked participant, whatever its state,   *)
(* together with its heartbeat record and its grace timer, and changes no  *)
(* other participant; for an id that is not tracked it does nothing.  An   *)
(* id that is not tracked has no heartbeat record and no grace timer, so   *)
(* no timer runs for it, and a heartbeat, a sweep or a disconnect          *)
(* notification leaves it untracked and emits nothing about it.            *)
(***************************************************************************)
NothingKept ==
    \A p \in PIds \ Tracked :
        /\ p \notin DOMAIN presence.lastHeartbeat
        /\ p \notin DOMAIN presence.disconnectTimers
        /\ PendingFor(presence, p) = {}

RemoveStep(p) ==
    Called("removePlayer", p) =>
        IF p \in Tracked
        THEN /\ presence'.players = MapDelete(presence.players, p)
             /\ presence'.lastHeartbeat = MapDelete(presence.lastHeartbeat, p)
             /\ PendingFor(presence', p) = {}
             /\ presence'.timeouts = presence.timeouts \ PendingFor(presence, p)
             /\ presence'.emitted = {<<"player-removed", p>>}
        ELSE presence' = Fresh

AbsentStep(p) ==
    p \notin Tracked /\ ~Called("addPlayer", p) =>
        /\ ~Called("onPlayerTimeout", p)
        /\ p \notin DOMAIN presence'.players
        /\ \A e \in presence'.emitted : e[2] # p
        /\ event'.id = p => presence' = Fresh

C28_Remove ==
    []NothingKept /\ [][\A p \in PIds : RemoveStep(p) /\ AbsentStep(p)]_vars

\* a participant has been removed while the grace timer of another one is pending
C28_Witness ==
    /\ event.op = "removePlayer"
    /\ event.id \notin Tracked
    /\ <<"player-removed", event.id>> \in presence.emitted
    /\ \E q \in Tracked : PendingFor(presence, q) # {}


(***************************************************************************)
(* C29.  finalPresenceCheck reports success exactly when the last          *)
(* heartbeat of every tracked participant is at most two heartbeat         *)
(* intervals old, and reports as missing exactly the tracked participants  *)
(* whose last heartbeat is older; it changes nothing in the manager, its   *)
(* timers included, and emits nothing.                                     *)
(***************************************************************************)
C29_FinalCheck ==
    [][event'.op = "finalPresenceCheck" =>
          /\ event'.arg.success = (\A p \in Tracked : ~Silent(presence, p))
          /\ event'.arg.missingPlayers = {p \in Tracked : Silent(presence, p)}
          /\ presence' = Fresh]_vars

\* a check that reports one participant and not the other, whose last
\* heartbeat is exactly two intervals old
C29_Witness ==
    /\ event.op = "finalPresenceCheck"
    /\ ~event.arg.success
    /\ \E p, q \in Tracked :
          /\ event.arg.missingPlayers = {p}
          /\ q # p
          /\ timeSince(presence, q) = 2 * presence.heartbeatInterval


(***************************************************************************)
(* C30.  A ready toggle takes a LOBBY participant to READY when it sets    *)
(* the flag and a READY participant to LOBBY when it clears it, and        *)
(* leaves the connection state of a participant that is IN_GAME,           *)
(* DISCONNECTED or TIMEOUT as it is.                                       *)
(***************************************************************************)
C30_ReadyToggle ==
    [][\A p \in PIds :
          Called("setPlayerReady", p) /\ p \in Tracked =>
              /\ StateOf(presence, p) = LOBBY /\ event'.arg
                    => StateOf(presence', p) = READY
              /\ StateOf(presence, p) = READY /\ ~event'.arg
                    => StateOf(presence', p) = LOBBY
              /\ StateOf(presence, p) \in {IN_GAME, DISCONNECTED, TIMEOUT}
                    => StateOf(presence', p) = StateOf(presence, p)]_vars


(***************************************************************************)
(* Matches with the '4 & 8 Special' rule                                   *)
(*                                                                         *)
(* The lobby settings are handed to the room as they come from the client; *)
(* the README names a rule "4 & 8 Special", which an older revision of     *)
(* the server read from settings.allowSpecial48.  The matches below are    *)
(* created with that flag in their settings, set and unset, and a deck     *)
(* that holds 4s and 8s.                                                   *)
(***************************************************************************)
Special48Scale ==
    [colors |-> <<"red", "blue">>, numbers |-> <<"0", "4", "8">>, actions |-> <<>>,
     copies |-> 1, wilds |-> 0, plus12s |-> 0]

Rules48(special48, startingCards) ==
    [allowStacking |-> FALSE, allowJumpIn |-> FALSE, allowSpecial07 |-> FALSE,
     allowPlus12 |-> FALSE, allowSpecial48 |-> special48, startingCards |-> startingCards]

Special48Configs ==
    {Config(n, Rules48(on, 1), Special48Scale) : n \in {2, 3}, on \in BOOLEAN}

Special48Init ==
    /\ \E c \in Special48Configs : InitRoom(c.n, c.st, c.sc)
    /\ presence = PlayerPresenceManager(2, CHOOSE o \in Options : TRUE)
    /\ event = Constructed
    /\ server = Listening

Special48Spec == Special48Init /\ [][Next]_vars

(***************************************************************************)
(* C32.  With the '4 & 8 Special' rule enabled, a 4 played on the player's *)
(* own turn skips the next player (the turn moves two places) and an 8     *)
(* reverses the direction of play; with the rule disabled both move the    *)
(* turn one place and keep the direction.                                  *)
(***************************************************************************)
C32_Special48 ==
    Playing => \A in \in PlayInputs :
        in[1] = currentPlayer /\ in[2].value \in {"4", "8"} =>
            \A o \in playCard(Room, in[1], in[2], in[3]) :
                o.result.success =>
                    LET n == NumPlayers(Room)
                    IN  IF ~settings.allowSpecial48
                        THEN /\ o.room.direction = direction
                             /\ o.room.currentPlayer = SuccOf(in[1], direction, n)
                        ELSE IF in[2].value = "4"
                        THEN /\ o.room.direction = direction
                             /\ o.room.currentPlayer
                                   = SuccOf(SuccOf(in[1], direction, n), direction, n)
                        ELSE o.room.direction = -direction


(***************************************************************************)
(* C33.  From the end of deal onward the top of the discard pile is the    *)
(* active card: currentValue is its value and currentColor its color, or, *)
(* for a wild on top, the color chosen when it was played (red when none   *)
(* was chosen), which stays until the next card is played.  A successful   *)
(* playCard takes exactly the played card out of the actor's hand (the     *)
(* hand the '0' rule then passes to the next participant) and puts it on   *)
(* top of the discard pile.                                                *)
(***************************************************************************)
TopIsActive ==
    Dealt => /\ discardPile # <<>>
             /\ currentValue = Top(discardPile).value
             /\ Top(discardPile).type # "wild" => currentColor = Top(discardPile).color

PlayPutsOnTop ==
    Playing => \A in \in PlayInputs :
        \A o \in playCard(Room, in[1], in[2], in[3]) :
            o.result.success =>
                LET card == in[2]
                    left == players[in[1]].hand (-) SetToBag({card})
                    holder == IF card.value = "0" /\ settings.allowSpecial07
                              THEN SuccOf(in[1], direction, NumPlayers(Room))
                              ELSE in[1]
                IN  /\ Top(o.room.discardPile) = card
                    /\ o.room.currentValue = card.value
                    /\ o.room.currentColor
                          = IF card.type # "wild" THEN card.color
                            ELSE IF in[3] = NoColor THEN "red" ELSE in[3]
                    /\ o.room.players[holder].hand = left
                    /\ BagCardinality(left) = HandSize(Room, in[1]) - 1

Played == steps' # steps /\ last'.op = "playCard" /\ last'.result.success

ActiveKept ==
    Dealt /\ ~Played => currentColor' = currentColor /\ currentValue' = currentValue

C33_DiscardTop == [](TopIsActive /\ PlayPutsOnTop) /\ [][ActiveKept]_vars

\* a wild played without a color is on top and red is the active color
C33_Witness ==
    /\ Playing
    /\ last.op = "playCard" /\ last.result.success
    /\ last.card.type = "wild"
    /\ Top(discardPile) = last.card
    /\ currentColor = "red"
    /\ Len(discardPile) = 2


(***************************************************************************)
(* C34.  For every number of participants k and starting hand size n with  *)
(* k * n smaller than the size of the built deck, dealing n cards after    *)
(* the deck is built ends without error, gives every participant exactly   *)
(* n cards and leaves a discard pile of exactly one number card, whatever  *)
(* order the shuffle gave the deck.                                        *)
(***************************************************************************)
C34_DealTerminates ==
    phase = "built" =>
        LET k == NumPlayers(Room)
            n == StartingCount(settings)
        IN  k * n < BagCardinality(deck) =>
                \A o \in dealCards(Room, n) :
                    /\ ~o.thrown
                    /\ \A i \in PlayerIds : HandSize(o.room, i) = n
                    /\ Len(o.room.discardPile) = 1
                    /\ o.room.discardPile[1].type = "number"


(***************************************************************************)
(* C38.  Whenever stackedDrawCount is above 0, stacking is enabled, the    *)
(* active value is +2 or Wild+4, hasDrawnThisTurn is false and the count   *)
(* is a positive multiple of 2; with stacking disabled stackedDrawCount is *)
(* always 0.                                                               *)
(***************************************************************************)
C38_StackedDraw ==
    /\ stackedDrawCount >= 0
    /\ stackedDrawCount > 0 =>
          /\ settings.allowStacking
          /\ currentValue \in {"+2", "Wild+4"}
          /\ ~hasDrawnThisTurn
          /\ stackedDrawCount % 2 = 0
    /\ ~settings.allowStacking => stackedDrawCount = 0

\* a +2 was put on a +2: four cards are waiting for the current player
C38_Witness ==
    /\ Playing
    /\ stackedDrawCount = 4
    /\ last.op = "playCard" /\ last.card.value = "+2"
    /\ currentValue = "+2"


(***************************************************************************)
(* C39.  While the match runs (no win has been reported) no participant    *)
(* holds an empty hand: an operation that leaves a participant with no     *)
(* card (the last card played, a 0 or a 7 under the swap rule included, or *)
(* an empty hand received in a swap) reports that participant as winner.   *)
(***************************************************************************)
C39_NoEmptyHand == Playing => \A i \in PlayerIds : HandSize(Room, i) > 0


(***************************************************************************)
(* C40.  The match never deadlocks: in every reachable state in which no   *)
(* win has been reported at least one action is accepted (the current      *)
(* player can draw or play a card, or the owner of the pending swap can    *)
(* choose a target); in particular, when hasDrawnThisTurn is true the      *)
(* current player holds a playable card or owns the pending swap.          *)
(***************************************************************************)
Accepted(outcomes) == \E o \in outcomes : o.result.success

CanDraw == Accepted(drawCard(Room, currentPlayer))

CanPlay ==
    \E in \in PlayInputs :
        in[1] = currentPlayer /\ Accepted(playCard(Room, in[1], in[2], in[3]))

CanChoose ==
    \E id \in pendingSwap7 :
        \E targetId \in PlayerIds : Accepted(chooseSwapTarget(Room, id, targetId))

HoldsPlayable == \E card \in BagToSet(players[currentPlayer].hand) : canPlayCard(Room, card)

C40_NoDeadlock ==
    [](Playing =>
          /\ CanDraw \/ CanPlay \/ CanChoose
          /\ hasDrawnThisTurn => HoldsPlayable \/ pendingSwap7 = {currentPlayer})

\* the current player has drawn, cannot draw again and holds a card to play
C40_Witness ==
    /\ Playing
    /\ hasDrawnThisTurn
    /\ last.op = "drawCard" /\ last.actor = currentPlayer
    /\ ~CanDraw
    /\ CanPlay
    /\ pendingSwap7 = {}


(***************************************************************************)
(* The server: lobby, match start and the presence callbacks of            *)
(* src/server.js                                                           *)
(*                                                                         *)
(* One lobby id is followed from createLobby to the end of its match.      *)
(* `server` holds what the handlers read and write for that id: the entry  *)
(* of lobbies, of rooms and of lobbyPresenceManagers, the callbacks        *)
(* registered on the manager and the sockets connected.  The manager is    *)
(* `presence`; the GameRoom of the match is the room of the first part of  *)
(* the module, participant i of the room being the socket room[i + 1].     *)
(* A socket id that disconnects does not come back: a client that          *)
(* reconnects gets a new socket id.  The lobby is public and as large as   *)
(* the number of sockets, so joinLobby refuses nobody for the passcode or  *)
(* for a full lobby.  The handlers callUno, catchUno, chooseSwapTarget and *)
(* the rematch vote are left out: they read neither the lobby nor the      *)
(* manager.                                                                *)
(***************************************************************************)
SIds == {"p1", "p2", "p3"}

\* createLobby: minPlayers: 2
LobbyMinPlayers == 2

\* the number of messages the sockets send
MaxCalls == 6

LobbyScale ==
    [colors |-> <<"red">>, numbers |-> <<"0", "1">>, actions |-> <<>>,
     copies |-> 7, wilds |-> 0, plus12s |-> 0]

\* reset(): stopHeartbeat, clearTimeout of every disconnect timer, clear the maps
reset(this) ==
    [stopHeartbeat(this) EXCEPT
        !.timeouts = {t \in @ : ~(/\ Has(this.disconnectTimers, t[1])
                                  /\ this.disconnectTimers[t[1]].due = t[2])},
        !.players = EmptyMap,
        !.lastHeartbeat = EmptyMap,
        !.disconnectTimers = EmptyMap]

\* the server with the manager of the lobby destroyed and forgotten:
\* pm.destroy() clears the callbacks, lobbyPresenceManagers.delete(roomId)
Destroyed(sv) == [sv EXCEPT !.managers = {}, !.callbacks = {}]

\* the handlers take and return the pair of the server and the manager
World(sv, pm) == [sv |-> sv, pm |-> pm]

IdsOf(list) == [i \in 1..Len(list) |-> list[i].id]

Range(seq) == {seq[i] : i \in 1..Len(seq)}

\* lobby.players.filter(p => p.id !== socketId)
Without(list, socketId) == SelectSeq(list, LAMBDA p : p.id # socketId)

\* a test that is content with one participant ready
everyReady_Some(list) == \E i \in 1..Len(list) : list[i].ready

\* lobby.players.every(p => p.ready)
everyReady(list) == \A i \in 1..Len(list) : list[i].ready

cleanupPlayerFromLobby(w, socketId) ==
    IF w.sv.lobbies = {} \/ socketId \notin Range(IdsOf(w.sv.lobby)) THEN w
    ELSE LET left == Without(w.sv.lobby, socketId)
         IN  IF left = <<>>
             THEN IF w.sv.managers # {}
                  THEN World(Destroyed([w.sv EXCEPT !.lobbies = {}, !.lobby = <<>>]),
                             reset(w.pm))
                  ELSE World([w.sv EXCEPT !.lobbies = {}, !.lobby = <<>>], w.pm)
             ELSE World([w.sv EXCEPT !.lobby = left, !.sent = "lobbyUpdate"], w.pm)

\* socket.on('createLobby'): new PlayerPresenceManager, addPlayer, lobbies[id] = ...
createLobby(w, socketId) ==
    World([w.sv EXCEPT !.lobbies = {"lobby"},
                       !.lobby = <<[id |-> socketId, ready |-> FALSE]>>,
                       !.managers = {"lobby"},
                       !.sent = "lobbyCreated"],
          addPlayer(w.pm, socketId, LOBBY))

\* socket.on('joinLobby')
joinLobby(w, socketId) ==
    IF w.sv.lobbies = {} THEN w
    ELSE IF socketId \in Range(IdsOf(w.sv.lobby))
    THEN World([w.sv EXCEPT !.sent = "error"], w.pm)
    ELSE World([w.sv EXCEPT !.lobby = Append(@, [id |-> socketId, ready |-> FALSE]),
                            !.sent = "lobbyUpdate"],
               IF w.sv.managers # {} THEN addPlayer(w.pm, socketId, LOBBY) ELSE w.pm)

\* socket.on('playerReady') up to the decision to start: the world it leaves
\* and whether the match is created
markReady(list, socketId, ready) ==
    [i \in 1..Len(list) |-> IF list[i].id = socketId
                            THEN [list[i] EXCEPT !.ready = ready] ELSE list[i]]

playerReady(w, socketId, ready) ==
    LET sv == [w.sv EXCEPT !.lobby = markReady(@, socketId, ready),
                           !.sent = "lobbyUpdate"]
        pm == IF sv.managers # {} THEN setPlayerReady(w.pm, socketId, ready) ELSE w.pm
        connected == SelectSeq(sv.lobby, LAMBDA p : p.id \in sv.sockets)
    IN  IF Len(sv.lobby) < LobbyMinPlayers
        THEN [w |-> World([sv EXCEPT !.sent = IF everyReady(sv.lobby) THEN "error" ELSE @],
                          pm),
              start |-> FALSE]
        ELSE IF ~everyReady(sv.lobby)
        THEN [w |-> World(sv, pm), start |-> FALSE]
        ELSE IF Len(connected) # Len(sv.lobby)
        THEN [w |-> World([sv EXCEPT !.lobby = connected, !.sent = "error"], pm),
              start |-> FALSE]
        ELSE IF sv.managers # {} /\ ~finalPresenceCheck(pm).success
        THEN [w |-> World([sv EXCEPT !.sent = "error"], pm), start |-> FALSE]
        ELSE [w |-> World(sv, pm), start |-> TRUE]

\* new GameRoom(roomId, lobby.players, lobby.settings); room.createDeck()
GameRoom(n, st, sc) ==
    [settings         |-> st,
     players          |-> [i \in 0..(n - 1) |-> [hand |-> EmptyBag, calledUno |-> FALSE]],
     deck             |-> createDeck(st, sc),
     discardPile      |-> <<>>,
     currentPlayer    |-> 0,
     currentColor     |-> "null",
     currentValue     |-> "null",
     direction        |-> 1,
     stackedDrawCount |-> 0,
     hasDrawnThisTurn |-> FALSE,
     pendingSwap7     |-> {}]

\* lobby.players.forEach(p => pm.updatePlayerState(p.id, PlayerState.IN_GAME))
RECURSIVE allInGame(_, _)
allInGame(pm, ids) ==
    IF ids = <<>> THEN pm
    ELSE allInGame(updatePlayerState(pm, Head(ids), IN_GAME), Tail(ids))

\* the rest of playerReady once the deal has returned: the participants are
\* IN_GAME, the sweep runs, the timeout callback is registered, the lobby is gone
matchStarted(w) ==
    LET tracked == w.sv.managers # {}
    IN  World([w.sv EXCEPT !.rooms = {"lobby"},
                           !.room = IdsOf(w.sv.lobby),
                           !.callbacks = IF tracked THEN {"player-timeout"} ELSE @,
                           !.lobbies = {},
                           !.lobby = <<>>,
                           !.sent = "gameStarted"],
              IF tracked THEN startHeartbeat(allInGame(w.pm, IdsOf(w.sv.lobby))) ELSE w.pm)

\* the participants the 'player-timeout' callback counts as active
activePlayers(w) ==
    {i \in 1..Len(w.sv.room) :
        /\ Has(w.pm.players, w.sv.room[i])
        /\ w.pm.players[w.sv.room[i]].state \notin {TIMEOUT, DISCONNECTED}}

\* a callback that ends the match only when nobody is left
activeTooFew_None(w) == Cardinality(activePlayers(w)) < 1

\* active.length < minPlayers
activeTooFew(w) == Cardinality(activePlayers(w)) < LobbyMinPlayers

\* pm.on('player-timeout', ...): [w, ended]
playerTimeout(w) ==
    IF w.sv.rooms = {} THEN [w |-> w, ended |-> FALSE]
    ELSE IF activeTooFew(w)
    THEN [w |-> World(Destroyed([w.sv EXCEPT !.rooms = {}, !.room = <<>>,
                                             !.sent = "gameEnded"]),
                      reset(w.pm)),
          ended |-> TRUE]
    ELSE [w |-> World([w.sv EXCEPT !.sent = "playerTimeout"], w.pm), ended |-> FALSE]

\* socket.on('disconnect')
disconnect(w, socketId) ==
    LET gone == [w.sv EXCEPT !.sockets = @ \ {socketId}]
        left == cleanupPlayerFromLobby(World(gone, w.pm), socketId)
    IN  IF left.sv.rooms # {} /\ socketId \in Range(left.sv.room) /\ left.sv.managers # {}
        THEN World([left.sv EXCEPT !.sent = "playerDisconnected"],
                   onPlayerDisconnect(left.pm, socketId))
        ELSE left


(***************************************************************************)
(* The server: its handlers as actions                                     *)
(***************************************************************************)
Now == World(server, Fresh)

Handled(op, socketId, arg, w) ==
    /\ server' = w.sv
    /\ presence' = w.pm
    /\ event' = [op |-> op, id |-> socketId, arg |-> arg]

\* a message of a connected socket; `steps` counts the messages received
Receives(socketId) ==
    /\ socketId \in server.sockets
    /\ steps < MaxCalls
    /\ steps' = steps + 1

matchVars == <<phase, settings, players, deck, discardPile, currentPlayer,
               currentColor, currentValue, direction, stackedDrawCount,
               hasDrawnThisTurn, pendingSwap7, scale, last>>

JoinLobby(socketId) ==
    /\ Receives(socketId)
    /\ Handled("joinLobby", socketId, NoId, joinLobby(Now, socketId))
    /\ UNCHANGED matchVars

LeaveLobby(socketId) ==
    /\ Receives(socketId)
    /\ Handled("leaveLobby", socketId, NoId, cleanupPlayerFromLobby(Now, socketId))
    /\ UNCHANGED matchVars

\* socket.on('playerReady'): when the match is created the room is built
\* and dealt before the manager is told; a deal that throws ends the handler
PlayerReady(socketId, ready) ==
    /\ Receives(socketId)
    /\ server.lobbies # {}
    /\ LET r == playerReady(Now, socketId, ready)
       IN  IF ~r.start
           THEN /\ Handled("playerReady", socketId, ready, r.w)
                /\ UNCHANGED matchVars
           ELSE \E o \in dealCards(GameRoom(Len(r.w.sv.lobby), settings, scale),
                                   StartingCount(settings)) :
                   /\ SetRoom(IF o.thrown
                              THEN GameRoom(Len(r.w.sv.lobby), settings, scale)
                              ELSE o.room)
                   /\ phase' = IF o.thrown THEN "crashed" ELSE "playing"
                   /\ last' = [op |-> "dealCards", actor |-> 0, card |-> NoCard,
                               prev |-> 0, result |-> [success |-> ~o.thrown]]
                   /\ Handled("playerReady", socketId, ready,
                              IF o.thrown
                              THEN World([r.w.sv EXCEPT !.rooms = {"lobby"},
                                                        !.room = IdsOf(r.w.sv.lobby)],
                                         r.w.pm)
                              ELSE matchStarted(r.w))
                   /\ UNCHANGED <<settings, scale>>

\* socket.on('heartbeat')
Heartbeat(socketId) ==
    /\ Receives(socketId)
    /\ server.managers # {}
    /\ Handled("heartbeat", socketId, NoId,
               World(server, receiveHeartbeat(Fresh, socketId)))
    /\ UNCHANGED matchVars

Disconnect(socketId) ==
    /\ Receives(socketId)
    /\ Handled("disconnect", socketId, NoId, disconnect(Now, socketId))
    /\ UNCHANGED matchVars

\* the setTimeout callback of startDisconnectTimer with the server's
\* 'player-timeout' callback, which emit runs before onPlayerTimeout returns
TimerExpires(playerId) ==
    /\ <<playerId, presence.now>> \in presence.timeouts
    /\ LET pm == onPlayerTimeout(
                    [Fresh EXCEPT !.timeouts = @ \ {<<playerId, presence.now>>},
                                  !.disconnectTimers[playerId].due = NoTimer],
                    playerId)
           called == /\ <<"player-timeout", playerId>> \in pm.emitted
                     /\ "player-timeout" \in server.callbacks
           r == IF called THEN playerTimeout(World(server, pm))
                ELSE [w |-> World(server, pm), ended |-> FALSE]
       IN  /\ Handled("onPlayerTimeout", playerId, r.ended, r.w)
           /\ phase' = IF r.ended THEN "ended" ELSE phase
           /\ UNCHANGED <<settings, players, deck, discardPile, currentPlayer,
                          currentColor, currentValue, direction, stackedDrawCount,
                          hasDrawnThisTurn, pendingSwap7, scale, last, steps>>

\* the participant of the room a socket is, or the id of no participant
IndexOf(socketId) ==
    IF socketId \in Range(server.room)
    THEN CHOOSE i \in 0..(Len(server.room) - 1) : server.room[i + 1] = socketId
    ELSE Len(server.room)

InMatch(socketId) ==
    /\ Receives(socketId)
    /\ server.rooms # {}
    /\ phase = "playing"

\* socket.on('drawCard')
SocketDrawCard(socketId) ==
    /\ InMatch(socketId)
    /\ \E o \in drawCard(Room, IndexOf(socketId)) :
          /\ SetRoom(o.room)
          /\ last' = IF o.result.success \/ o.room # Room
                     THEN [op |-> "drawCard", actor |-> IndexOf(socketId),
                           card |-> NoCard, prev |-> currentPlayer,
                           result |-> o.result]
                     ELSE last
    /\ UNCHANGED <<phase, settings, scale, presence, event, server>>

\* socket.on('playCard'): rooms.delete(roomId) when a winner is reported
SocketPlayCard(socketId, card, chosenColor) ==
    /\ InMatch(socketId)
    /\ \E o \in playCard(Room, IndexOf(socketId), card, chosenColor) :
          LET won == o.result.success /\ o.result.winner # {}
          IN  /\ SetRoom(o.room)
              /\ last' = IF o.result.success \/ o.room # Room
                         THEN [op |-> "playCard", actor |-> IndexOf(socketId),
                               card |-> card, prev |-> currentPlayer,
                               result |-> o.result]
                         ELSE last
              /\ phase' = IF won THEN "over" ELSE "playing"
              /\ server' = IF won THEN [server EXCEPT !.rooms = {}, !.sent = "gameOver"]
                           ELSE server
              /\ UNCHANGED <<settings, scale, presence, event>>

ServerInit ==
    /\ phase = "none"
    /\ settings = Rules(FALSE, FALSE, FALSE, FALSE, 2)
    /\ scale = LobbyScale
    /\ players = GameRoom(0, settings, scale).players
    /\ deck = EmptyBag
    /\ discardPile = <<>>
    /\ currentPlayer = 0
    /\ currentColor = "null"
    /\ currentValue = "null"
    /\ direction = 1
    /\ stackedDrawCount = 0
    /\ hasDrawnThisTurn = FALSE
    /\ pendingSwap7 = {}
    /\ last = [op |-> "constructor", actor |-> 0, card |-> NoCard, prev |-> 0,
               result |-> [success |-> TRUE]]
    /\ steps = 0
    /\ event = [op |-> "createLobby", id |-> "p1", arg |-> NoId]
    /\ \E o \in {x \in Options : x.reconnectTimeout > 2 * x.heartbeatInterval} :
          LET w == createLobby(World([Listening EXCEPT !.sockets = SIds],
                                     PlayerPresenceManager(LobbyMinPlayers, o)),
                               "p1")
          IN  server = w.sv /\ presence = [w.pm EXCEPT !.emitted = {}]

ServerNext ==
    \/ \E s \in SIds : JoinLobby(s)
    \/ \E s \in SIds : LeaveLobby(s)
    \/ \E s \in SIds, r \in BOOLEAN : PlayerReady(s, r)
    \/ \E s \in SIds : Heartbeat(s)
    \/ \E s \in SIds : Disconnect(s)
    \/ \E s \in SIds : SocketDrawCard(s)
    \/ \E s \in SIds : \E card \in CardsAt(IndexOf(s)) \ {NoCard} :
          \E color \in ColorsFor(card) : SocketPlayCard(s, card, color)
    \/ Sweep
    \/ \E s \in SIds : TimerExpires(s)
    \/ Tick

ServerSpec == ServerInit /\ [][ServerNext]_vars


(***************************************************************************)
(* Vocabulary of the server properties                                     *)
(***************************************************************************)
\* the step is a message of a socket (the timer callbacks and the clock
\* leave `steps` alone)
Message(op) == steps' # steps /\ event'.op = op

\* rooms.set(roomId, room)
MatchCreated == server.rooms = {} /\ server'.rooms # {}

Participants == Range(server.room)

\* the socket whose turn it is in the room
TurnOf == server.room[currentPlayer + 1]

C35_LeaverUntracked ==
    [][(/\ Message("leaveLobby") \/ Message("disconnect")
        /\ server.lobbies # {}
        /\ event'.id \in Range(IdsOf(server.lobby)))
       => ~Has(presence'.players, event'.id)]_vars

(***************************************************************************)
(* C36.  When a participant of a match reaches TIMEOUT, the match is ended *)
(* (the room deleted, the presence manager destroyed and forgotten, its    *)
(* sweep and every grace timer cancelled) exactly when the number of       *)
(* participants of the match that are neither DISCONNECTED nor TIMEOUT is  *)
(* below the minimum; otherwise the match is kept.                         *)
(***************************************************************************)
StillActive(p) ==
    {q \in Participants \ {p} :
        /\ Has(presence.players, q)
        /\ presence.players[q].state \notin {DISCONNECTED, TIMEOUT}}

MatchEnded ==
    /\ server'.rooms = {}
    /\ server'.managers = {}
    /\ server'.callbacks = {}
    /\ presence'.timeouts = {}
    /\ presence'.heartbeatTimer = NoTimer
    /\ DOMAIN presence'.disconnectTimers = {}

MatchKept ==
    /\ server'.rooms = server.rooms
    /\ server'.room = server.room
    /\ server'.managers = server.managers
    /\ presence'.players[event'.id].state = TIMEOUT
    /\ presence'.heartbeatTimer = presence.heartbeatTimer
    /\ UNCHANGED matchVars

C36_TimeoutEndsMatch ==
    [][(/\ event'.op = "onPlayerTimeout"
        /\ <<event'.id, presence.now>> \in presence.timeouts
        /\ server.rooms # {}
        /\ event'.id \in Participants
        /\ Has(presence.players, event'.id))
       => IF Cardinality(StillActive(event'.id)) < LobbyMinPlayers
          THEN MatchEnded
          ELSE MatchKept]_vars

\* a grace timer ran out in a match of two: the match was ended
C36_Witness ==
    /\ event.op = "onPlayerTimeout" /\ event.arg = TRUE
    /\ server.sent = "gameEnded"
    /\ server.rooms = {} /\ server.managers = {}
    /\ phase = "ended"
    /\ presence.timeouts = {}

\* a grace timer ran out in a match of three and the match goes on
C36_KeptWitness ==
    /\ event.op = "onPlayerTimeout" /\ event.arg = FALSE
    /\ server.sent = "playerTimeout"
    /\ server.rooms # {}
    /\ phase = "playing"
    /\ Cardinality({q \in Participants : presence.players[q].state = IN_GAME}) = 2

(***************************************************************************)
(* C37.  After a participant has timed out and the match goes on, the      *)
(* participant is out of the turn order: the current player index never    *)
(* designates a participant in state TIMEOUT.                              *)
(***************************************************************************)
C37_TurnSkipsTimedOut ==
    [](server.rooms # {} /\ phase = "playing" /\ Has(presence.players, TurnOf)
          => presence.players[TurnOf].state # TIMEOUT)

====
